---------------------------- MODULE Spec2Model ----------------------------
(***************************************************************************)
(* Share-Me relay (src/server.js): the room registry, the join-room rate   *)
(* limiter and the room-broadcast relay of file events, as a state machine *)
(* with one action per socket.io event handler.                            *)
(*                                                                         *)
(* JavaScript strings are sequences of one-character strings; a JavaScript *)
(* Set is a duplicate-free sequence in insertion order; a Map is a         *)
(* function whose DOMAIN is the set of its keys.                           *)
(***************************************************************************)
EXTENDS Integers, Sequences, FiniteSets, TLC

(***************************************************************************)
(* Program constants (src/server.js:9-12).                                 *)
(***************************************************************************)
RATE_LIMIT_WINDOW == 60000

MAX_REQUESTS_PER_WINDOW == 30

MAX_ROOM_SIZE == 10

ROOM_CLEANUP_INTERVAL == 300000

(***************************************************************************)
(* Bounds of the model.                                                    *)
(***************************************************************************)
\* connections of the registry/relay specification
NumSockets == 2

\* join-room events one connection sends in the registry/relay specification
MaxJoins == 2

\* clock advances in the rate-limit specification
MaxTicks == 1

\* admissions each acting connection has left in the capacity specification
JoinsLeft == 3

(***************************************************************************)
(* Generic helpers.                                                        *)
(***************************************************************************)
Range(q) == {q[i] : i \in 1..Len(q)}

EmptyMap == [x \in {} |-> 0]

MapPut(f, k, v) == [x \in (DOMAIN f) \cup {k} |-> IF x = k THEN v ELSE f[x]]

MapDelete(f, k) == [x \in (DOMAIN f) \ {k} |-> f[x]]

RECURSIVE SetToSeq(_)
SetToSeq(S) ==
    IF S = {} THEN <<>>
    ELSE LET x == CHOOSE y \in S : TRUE
         IN  <<x>> \o SetToSeq(S \ {x})

\* Set.prototype.add / delete on an insertion-ordered set
\* variant: an array push, which keeps duplicates
SetAddDup(q, x) == Append(q, x)

\* Set.prototype.add
SetAdd(q, x) == IF x \in Range(q) THEN q ELSE Append(q, x)

SetDelete(q, x) == SelectSeq(q, LAMBDA y : y # x)

\* Array.prototype.filter((id) => id !== x)
ArrayWithout(q, x) == SelectSeq(q, LAMBDA y : y # x)

(***************************************************************************)
(* Characters and strings.                                                 *)
(***************************************************************************)
UpperChars == {"A", "B", "C", "X", "Y", "Z"}

LowerChars == {"a", "b", "c", "x", "y", "z"}

DigitChars == {"0", "1", "2", "3", "4", "5", "6", "7", "8", "9"}

OtherChars == {"-", " ", "#"}

\* String.prototype.toUpperCase, one character
ToUpperChar(c) ==
    CASE c = "a" -> "A" [] c = "b" -> "B" [] c = "c" -> "C"
      [] c = "x" -> "X" [] c = "y" -> "Y" [] c = "z" -> "Z"
      [] OTHER -> c

toUpperCase(str) == [i \in 1..Len(str) |-> ToUpperChar(str[i])]

\* str.substring(0, n)
substring0(str, n) == SubSeq(str, 1, IF Len(str) < n THEN Len(str) ELSE n)

\* the character class [A-Z0-9] of both regular expressions
IsAZ09(c) == c \in UpperChars \cup DigitChars

\* /^[A-Z0-9]{6}$/.test(roomId)
validateRoomId(roomId) ==
    /\ Len(roomId) = 6
    /\ \A i \in 1..Len(roomId) : IsAZ09(roomId[i])

\* roomId.replace(/[^A-Z0-9]/g, "").substring(0, 6).toUpperCase()
sanitizeRoomId(roomId) ==
    toUpperCase(substring0(SelectSeq(roomId, IsAZ09), 6))

(***************************************************************************)
(* JavaScript values that arrive as the argument of join-room/leave-room.  *)
(***************************************************************************)
Str(chars) == [type |-> "string", chars |-> chars]

Undefined == [type |-> "undefined", chars |-> <<>>]

\* the number 123456: truthy, but typeof is not "string"
Num123456 == [type |-> "number", chars |-> <<"1", "2", "3", "4", "5", "6">>]

\* !roomId is false
Truthy(v) ==
    CASE v.type = "string" -> v.chars # <<>>
      [] v.type = "number" -> v.chars # <<"0">>
      [] OTHER -> FALSE

(***************************************************************************)
(* Connection identifiers (socket.id): strings that are no room code.      *)
(***************************************************************************)
SidChar == <<"1", "2", "3", "4", "5", "6", "7", "8", "9", "a", "b", "c">>

Sid(n) == <<"#", SidChar[n]>>


(***************************************************************************)
(* State of the relay process.                                             *)
(***************************************************************************)
VARIABLES
    now,          \* Date.now(), in ms
    ticks,        \* number of clock advances so far
    nextSweep,    \* time at which the setInterval callback is next due
    connected,    \* ids of the sockets whose connection is open
    closed,       \* ids of the sockets that have disconnected
    rooms,        \* const rooms = new Map(): room code -> Set of socket ids
    adapter,      \* socket.io's own rooms: room name -> set of socket ids
    rateLimit,    \* const rateLimit = new Map(): socket id -> timestamps
    admittedLog,  \* history: every time at which checkRateLimit returned true
    prevRooms,    \* history: the rooms map when the last handler started
    prevLog,      \* history: admittedLog when the last handler started
    last,         \* the event handled last: [op, socket, data]
    emitted       \* what that handler emitted: sequence of [to, event, data]

(***************************************************************************)
(* State of one browser client (class FastFileTransfer) and of its         *)
(* socket.  now is also the client's Date.now(), last also names the       *)
(* client callback that ran last.                                          *)
(***************************************************************************)
VARIABLES
    currentRoom,       \* this.currentRoom: null or the room code
    connectedPeers,    \* this.connectedPeers: Set of socket ids
    filesToSend,       \* this.filesToSend: Map file name -> File
    receivingFiles,    \* this.receivingFiles: Map fileId -> receiving session
    activeTransfers,   \* this.activeTransfers: Map fileId -> [fileName, paused]
    socketConnected,   \* this.socket.connected
    lastPongTime,      \* this.lastPongTime
    connectionHealthy, \* this.connectionHealthy
    isAppVisible,      \* this.isAppVisible
    loops,             \* the closures of sendFile: [fileId, file, offset, chunkIndex, pc]
    resumeTimers,      \* pending setTimeout callbacks of handleTransferReconnection
    outbox,            \* history: every socket.emit of the client, in order
    inbox,             \* history: the file events the client has handled, in order
    downloads          \* the download links created: [fileId, fileName, blob]

relayVars == <<nextSweep, connected, closed, rooms, adapter, rateLimit,
               admittedLog, prevRooms, prevLog, emitted>>

clientVars == <<currentRoom, connectedPeers, filesToSend, receivingFiles,
                activeTransfers, socketConnected, lastPongTime,
                connectionHealthy, isAppVisible, loops, resumeTimers, outbox,
                inbox, downloads>>

vars == <<now, ticks, nextSweep, connected, closed, rooms, adapter,
          rateLimit, admittedLog, prevRooms, prevLog, last, emitted,
          clientVars>>

Null == [type |-> "null"]

\* the fields after the constructor (lines 18-24, 727, 791-793); the socket
\* is taken to have connected
InitClient ==
    /\ currentRoom = Null
    /\ connectedPeers = {}
    /\ filesToSend = EmptyMap
    /\ receivingFiles = EmptyMap
    /\ activeTransfers = EmptyMap
    /\ socketConnected = TRUE
    /\ lastPongTime = 0
    /\ connectionHealthy = TRUE
    /\ isAppVisible = TRUE
    /\ loops = <<>>
    /\ resumeTimers = 0
    /\ outbox = <<>>
    /\ inbox = <<>>
    /\ downloads = <<>>

(***************************************************************************)
(* socket.io: rooms of the adapter and the three ways of emitting.         *)
(***************************************************************************)
\* the sockets in room `room` of adapter state `ad`
InRoom(ad, room) == IF room \in DOMAIN ad THEN ad[room] ELSE {}

\* socket.join(room)
AdapterJoin(ad, s, room) == MapPut(ad, room, InRoom(ad, room) \cup {s})

\* variant: the call of socket.leave is missing
AdapterLeaveMissing(ad, s, room) == ad

\* socket.leave(room): an emptied room is dropped
AdapterLeave(ad, s, room) ==
    IF room \notin DOMAIN ad THEN ad
    ELSE IF ad[room] \ {s} = {} THEN MapDelete(ad, room)
    ELSE [ad EXCEPT ![room] = @ \ {s}]

\* variant: a disconnected socket stays in the rooms it was in
AdapterLeaveAllKeeps(ad, s) == ad

\* what socket.io does on a disconnect, before the "disconnect" listeners run
AdapterLeaveAll(ad, s) ==
    LET keep == {r \in DOMAIN ad : ad[r] \ {s} # {}}
    IN  [r \in keep |-> ad[r] \ {s}]

\* variant: the sender is not excluded from the broadcast
SocketToWithSender(ad, s, room) == InRoom(ad, room)

\* the receivers of socket.to(room).emit(...): the room without the sender
SocketTo(ad, s, room) == InRoom(ad, room) \ {s}

\* the receivers of io.to(room).emit(...)
IoTo(ad, room) == InRoom(ad, room)

\* one delivery of `event` with `data` to each socket of `targets`
Emit(targets, event, data) ==
    LET q == SetToSeq(targets)
    IN  [i \in 1..Len(q) |-> [to |-> q[i], event |-> event, data |-> data]]

(***************************************************************************)
(* checkRateLimit (src/server.js:42-58).                                   *)
(***************************************************************************)
\* rateLimit.get(socketId) || []
userRequests(socketId) ==
    IF socketId \in DOMAIN rateLimit THEN rateLimit[socketId] ELSE <<>>

\* requests.filter((time) => now - time < RATE_LIMIT_WINDOW)
InWindow(requests) == SelectSeq(requests, LAMBDA time : now - time < RATE_LIMIT_WINDOW)

validRequests(socketId) == InWindow(userRequests(socketId))

\* variant: the comparison with the maximum is off by one
checkRateLimitOffByOne(socketId) ==
    ~ (Len(validRequests(socketId)) > MAX_REQUESTS_PER_WINDOW)

\* the value checkRateLimit returns
checkRateLimit(socketId) ==
    ~ (Len(validRequests(socketId)) >= MAX_REQUESTS_PER_WINDOW)

\* variant: the call records nothing
rateLimitAfterCheckNothing(socketId) == rateLimit

\* the rateLimit map after the call
rateLimitAfterCheck(socketId) ==
    IF checkRateLimit(socketId)
    THEN MapPut(rateLimit, socketId, Append(validRequests(socketId), now))
    ELSE rateLimit

(***************************************************************************)
(* join-room (src/server.js:77-134).                                       *)
(***************************************************************************)
MsgRate == "Too many requests. Please wait."

MsgFormat == "Invalid room code format."

MsgPattern == "Room code must be 6 alphanumeric characters."

MsgFull == "Room is full. Maximum 10 users allowed."

\* rooms.get(code), the empty Set when the code is no key
Members(rms, code) == IF code \in DOMAIN rms THEN rms[code] ELSE <<>>

\* variant: the size is compared with > instead of >=
RoomIsFullOffByOne(code) ==
    code \in DOMAIN rooms /\ Len(rooms[code]) > MAX_ROOM_SIZE

\* rooms.has(code) && rooms.get(code).size >= MAX_ROOM_SIZE
RoomIsFull(code) ==
    code \in DOMAIN rooms /\ Len(rooms[code]) >= MAX_ROOM_SIZE

\* variant: the sanitized code is not validated
JoinOutcomeNoValidate(s, roomId) ==
    IF ~checkRateLimit(s) THEN "rate"
    ELSE IF ~Truthy(roomId) \/ roomId.type # "string" THEN "format"
    ELSE IF RoomIsFull(sanitizeRoomId(roomId.chars)) THEN "full"
    ELSE "ok"

\* which return of the handler is taken
JoinOutcome(s, roomId) ==
    IF ~checkRateLimit(s) THEN "rate"
    ELSE IF ~Truthy(roomId) \/ roomId.type # "string" THEN "format"
    ELSE IF ~validateRoomId(sanitizeRoomId(roomId.chars)) THEN "pattern"
    ELSE IF RoomIsFull(sanitizeRoomId(roomId.chars)) THEN "full"
    ELSE "ok"

JoinError(outcome) ==
    CASE outcome = "rate" -> MsgRate
      [] outcome = "format" -> MsgFormat
      [] outcome = "pattern" -> MsgPattern
      [] outcome = "full" -> MsgFull

\* rooms after lines 111-114
RoomsAfterJoin(s, code) == MapPut(rooms, code, SetAdd(Members(rooms, code), s))

\* variant: user-joined is sent with io.to, so the joiner gets it too
JoinEmitsToAll(s, code, rms, ad) ==
    Emit({s}, "users-in-room", ArrayWithout(rms[code], s))
    \o Emit(IoTo(ad, code), "user-joined", s)
    \o Emit(IoTo(ad, code), "room-status",
            [roomId |-> code, userCount |-> Len(rms[code]), users |-> rms[code]])

\* the emissions of lines 116-133, given the registry and adapter after the join
JoinEmits(s, code, rms, ad) ==
    Emit({s}, "users-in-room", ArrayWithout(rms[code], s))
    \o Emit(SocketTo(ad, s, code), "user-joined", s)
    \o Emit(IoTo(ad, code), "room-status",
            [roomId |-> code, userCount |-> Len(rms[code]), users |-> rms[code]])

JoinRoom(s, roomId) ==
    /\ s \in connected
    /\ LET outcome == JoinOutcome(s, roomId)
       IN  /\ rateLimit' = rateLimitAfterCheck(s)
           /\ admittedLog' =
                IF checkRateLimit(s)
                THEN MapPut(admittedLog, s,
                            Append(IF s \in DOMAIN admittedLog
                                   THEN admittedLog[s] ELSE <<>>, now))
                ELSE admittedLog
           /\ IF outcome = "ok"
              THEN LET code == sanitizeRoomId(roomId.chars)
                   IN  /\ rooms' = RoomsAfterJoin(s, code)
                       /\ adapter' = AdapterJoin(adapter, s, code)
                       /\ emitted' = JoinEmits(s, code, rooms', adapter')
              ELSE /\ UNCHANGED <<rooms, adapter>>
                   /\ emitted' = Emit({s}, "error", [message |-> JoinError(outcome)])
    /\ last' = [op |-> "join-room", socket |-> s, data |-> roomId]
    /\ prevRooms' = rooms
    /\ prevLog' = admittedLog
    /\ UNCHANGED clientVars
    /\ UNCHANGED <<now, ticks, nextSweep, connected, closed>>

(***************************************************************************)
(* file-info, file-chunk, file-complete (src/server.js:159-191).           *)
(***************************************************************************)
FileInfo(s, d) ==
    /\ s \in connected
    /\ emitted' = Emit(SocketTo(adapter, s, d.room), "file-info",
                       [fileId |-> d.fileId, fileName |-> d.fileName,
                        fileSize |-> d.fileSize, mimeType |-> d.mimeType,
                        sender |-> s])
    /\ last' = [op |-> "file-info", socket |-> s, data |-> d]
    /\ prevRooms' = rooms
    /\ prevLog' = admittedLog
    /\ UNCHANGED clientVars
    /\ UNCHANGED <<now, ticks, nextSweep, connected, closed, rooms, adapter,
                   rateLimit, admittedLog>>

FileChunk(s, d) ==
    /\ s \in connected
    /\ emitted' = Emit(SocketTo(adapter, s, d.room), "file-chunk",
                       [fileId |-> d.fileId, chunkIndex |-> d.chunkIndex,
                        data |-> d.data, isLast |-> d.isLast, sender |-> s])
    /\ last' = [op |-> "file-chunk", socket |-> s, data |-> d]
    /\ prevRooms' = rooms
    /\ prevLog' = admittedLog
    /\ UNCHANGED clientVars
    /\ UNCHANGED <<now, ticks, nextSweep, connected, closed, rooms, adapter,
                   rateLimit, admittedLog>>

FileComplete(s, d) ==
    /\ s \in connected
    /\ emitted' = Emit(SocketTo(adapter, s, d.room), "file-complete",
                       [fileId |-> d.fileId, sender |-> s])
    /\ last' = [op |-> "file-complete", socket |-> s, data |-> d]
    /\ prevRooms' = rooms
    /\ prevLog' = admittedLog
    /\ UNCHANGED clientVars
    /\ UNCHANGED <<now, ticks, nextSweep, connected, closed, rooms, adapter,
                   rateLimit, admittedLog>>

(***************************************************************************)
(* leave-room (src/server.js:194-208).                                     *)
(***************************************************************************)
\* variant: membership of the socket is not checked
LeaveAppliesToAnyone(s, roomId) ==
    /\ roomId.type = "string"
    /\ roomId.chars \in DOMAIN rooms

\* rooms.has(roomId) && rooms.get(roomId).has(socket.id)
LeaveApplies(s, roomId) ==
    /\ roomId.type = "string"
    /\ roomId.chars \in DOMAIN rooms
    /\ s \in Range(rooms[roomId.chars])

\* variant: the emptied room is not deleted
RoomsAfterLeaveKeepEmpty(s, code) ==
    [rooms EXCEPT ![code] = SetDelete(@, s)]

\* rooms after lines 197 and 204-206
RoomsAfterLeave(s, code) ==
    IF SetDelete(rooms[code], s) = <<>>
    THEN MapDelete(rooms, code)
    ELSE [rooms EXCEPT ![code] = SetDelete(@, s)]

LeaveRoom(s, roomId) ==
    /\ s \in connected
    /\ IF LeaveApplies(s, roomId)
       THEN /\ rooms' = RoomsAfterLeave(s, roomId.chars)
            /\ adapter' = AdapterLeave(adapter, s, roomId.chars)
            /\ emitted' = Emit(SocketTo(adapter', s, roomId.chars), "user-left", s)
       ELSE /\ UNCHANGED <<rooms, adapter>>
            /\ emitted' = <<>>
    /\ last' = [op |-> "leave-room", socket |-> s, data |-> roomId]
    /\ prevRooms' = rooms
    /\ prevLog' = admittedLog
    /\ UNCHANGED clientVars
    /\ UNCHANGED <<now, ticks, nextSweep, connected, closed, rateLimit,
                   admittedLog>>

(***************************************************************************)
(* disconnect (src/server.js:219-233).                                     *)
(***************************************************************************)
\* variant: the loop stops at the first room that holds the socket
DisconnectFirstRoomOnly(s, keys, rms, ad, out) ==
    LET hit == {k \in DOMAIN rms : s \in Range(rms[k])}
    IN  IF hit = {} THEN [rooms |-> rms, emitted |-> out]
        ELSE LET roomId == CHOOSE k \in hit : TRUE
                 users == SetDelete(rms[roomId], s)
             IN  [rooms |-> IF users = <<>> THEN MapDelete(rms, roomId)
                            ELSE [rms EXCEPT ![roomId] = users],
                  emitted |-> out \o Emit(IoTo(ad, roomId), "user-left", s)]

\* one pass of the for loop over the entries `keys` still to visit; `ad` is
\* the adapter after socket.io has taken the socket out of all its rooms
RECURSIVE DisconnectLoop(_, _, _, _, _)
DisconnectLoop(s, keys, rms, ad, out) ==
    IF keys = <<>> THEN [rooms |-> rms, emitted |-> out]
    ELSE LET roomId == Head(keys)
             users == SetDelete(rms[roomId], s)
         IN  IF s \in Range(rms[roomId])
             THEN DisconnectLoop(s, Tail(keys),
                      IF users = <<>> THEN MapDelete(rms, roomId)
                      ELSE [rms EXCEPT ![roomId] = users],
                      ad,
                      out \o Emit(IoTo(ad, roomId), "user-left", s))
             ELSE DisconnectLoop(s, Tail(keys), rms, ad, out)

Disconnect(s) ==
    /\ s \in connected
    /\ connected' = connected \ {s}
    /\ closed' = closed \cup {s}
    /\ adapter' = AdapterLeaveAll(adapter, s)
    /\ LET r == DisconnectLoop(s, SetToSeq(DOMAIN rooms), rooms, adapter', <<>>)
       IN  /\ rooms' = r.rooms
           /\ emitted' = r.emitted
    /\ last' = [op |-> "disconnect", socket |-> s, data |-> Undefined]
    /\ prevRooms' = rooms
    /\ prevLog' = admittedLog
    /\ UNCHANGED clientVars
    /\ UNCHANGED <<now, ticks, nextSweep, rateLimit, admittedLog>>

(***************************************************************************)
(* A new connection (src/server.js:73): socket.io puts the socket into the *)
(* room named by its own id.  Ids are never reused; the n-th connection of *)
(* a run is given the id Sid(n).                                           *)
(***************************************************************************)
Connect(s) ==
    /\ s \notin connected \cup closed
    /\ \E n \in 1..Len(SidChar) :
          s = Sid(n) /\ Cardinality(connected \cup closed) = n - 1
    /\ connected' = connected \cup {s}
    /\ adapter' = AdapterJoin(adapter, s, s)
    /\ emitted' = <<>>
    /\ last' = [op |-> "connection", socket |-> s, data |-> Undefined]
    /\ prevRooms' = rooms
    /\ prevLog' = admittedLog
    /\ UNCHANGED clientVars
    /\ UNCHANGED <<now, ticks, nextSweep, closed, rooms, rateLimit, admittedLog>>

(***************************************************************************)
(* The periodic sweep (src/server.js:237-256).                             *)
(***************************************************************************)
\* rooms after the first loop
SweepRooms(rms) == [r \in {k \in DOMAIN rms : Len(rms[k]) # 0} |-> rms[r]]

\* variant: the sweep forgets every record
SweepRateLimitAll(rl) == EmptyMap

\* rateLimit after the second loop
SweepRateLimit(rl) ==
    [s \in {k \in DOMAIN rl : Len(InWindow(rl[k])) # 0} |-> InWindow(rl[s])]

Sweep ==
    /\ now >= nextSweep
    /\ nextSweep' = nextSweep + ROOM_CLEANUP_INTERVAL
    /\ rooms' = SweepRooms(rooms)
    /\ rateLimit' = SweepRateLimit(rateLimit)
    /\ emitted' = <<>>
    /\ last' = [op |-> "sweep", socket |-> <<>>, data |-> Undefined]
    /\ prevRooms' = rooms
    /\ prevLog' = admittedLog
    /\ UNCHANGED clientVars
    /\ UNCHANGED <<now, ticks, connected, closed, adapter, admittedLog>>

(***************************************************************************)
(* The clock.                                                              *)
(***************************************************************************)
Tick(d) ==
    /\ ticks < MaxTicks
    /\ ticks' = ticks + 1
    /\ now' = now + d
    /\ emitted' = <<>>
    /\ last' = [op |-> "tick", socket |-> <<>>, data |-> Undefined]
    /\ prevRooms' = rooms
    /\ prevLog' = admittedLog
    /\ UNCHANGED clientVars
    /\ UNCHANGED <<nextSweep, connected, closed, rooms, adapter, rateLimit,
                   admittedLog>>

(***************************************************************************)
(* Inputs.                                                                 *)
(***************************************************************************)
CodeA == <<"A", "B", "C", "1", "2", "3">>

CodeB == <<"X", "Y", "Z", "7", "8", "9">>

\* a code no connection of the model ever joins
CodeNone == <<"Z", "Z", "Z", "0", "0", "0">>

\* arguments of join-room: well-formed codes, codes to be sanitized, and
\* the malformed ones
JoinArgs ==
    { Str(CodeA), Str(CodeB),
      Str(<<"a", "b", "c", "1", "2", "3">>),
      Str(<<"A", "B", "-", "C", "1", " ", "2", "3", "X">>),
      Str(<<"A", "B", "C", "1", "2">>),
      Undefined, Num123456 }

\* arguments of leave-room
LeaveArgs ==
    { Str(CodeA), Str(CodeB), Str(<<"a", "b", "c", "1", "2", "3">>), Undefined }

Sockets == {Sid(n) : n \in 1..NumSockets}

\* data.room of a file event: a room code or, as any string may be sent,
\* the id of a connection
RoomArgs == {CodeA, CodeB} \cup {Sid(n) : n \in 1..2}

FileInfoArgs ==
    [room : RoomArgs, fileId : {1700000000}, fileName : {"a.txt"},
     fileSize : {131082}, mimeType : {"text/plain"}]

FileChunkArgs ==
    [room : RoomArgs, fileId : {1700000000}, chunkIndex : {2},
     data : {"QUJD"}, isLast : {TRUE}]

FileCompleteArgs == [room : RoomArgs, fileId : {1700000000}]

\* clock advances: the longest that keeps a timestamp inside the window, and
\* the shortest that moves it out
TickSteps == {RATE_LIMIT_WINDOW - 1, RATE_LIMIT_WINDOW}

(***************************************************************************)
(* The relay after construction (src/server.js:8, 34, 237): both maps      *)
(* empty, nobody connected.  Only differences of times are ever used, so   *)
(* the clock starts at 0, at a moment when the sweep is due.               *)
(***************************************************************************)
InitRelay ==
    /\ now = 0
    /\ ticks = 0
    /\ nextSweep = 0
    /\ connected = {}
    /\ closed = {}
    /\ rooms = EmptyMap
    /\ adapter = EmptyMap
    /\ rateLimit = EmptyMap
    /\ admittedLog = EmptyMap
    /\ prevRooms = EmptyMap
    /\ prevLog = EmptyMap
    /\ last = [op |-> "init", socket |-> <<>>, data |-> Undefined]
    /\ emitted = <<>>

Init == InitClient /\ InitRelay

\* the join-room events of a connection so far, all inside the window
JoinsSent(s) == Len(userRequests(s))

Next ==
    \/ \E s \in Sockets : Connect(s)
    \/ \E s \in Sockets, roomId \in JoinArgs :
          JoinsSent(s) < MaxJoins /\ JoinRoom(s, roomId)
    \/ \E s \in Sockets, roomId \in LeaveArgs : LeaveRoom(s, roomId)
    \/ \E s \in Sockets : Disconnect(s)
    \/ Sweep

Spec == Init /\ [][Next]_vars

(***************************************************************************)
(* The relay of file events: the same handlers, the connections sending    *)
(* well-formed join-room and leave-room events and file events with any    *)
(* room value.                                                             *)
(***************************************************************************)
RelayJoinArgs == {Str(CodeA), Str(CodeB)}

RelayLeaveArgs == {Str(CodeA), Str(CodeB)}

NextRelay ==
    \/ \E s \in Sockets : Connect(s)
    \/ \E s \in Sockets, roomId \in RelayJoinArgs :
          JoinsSent(s) < MaxJoins /\ JoinRoom(s, roomId)
    \/ \E s \in Sockets, roomId \in RelayLeaveArgs : LeaveRoom(s, roomId)
    \/ \E s \in Sockets, d \in FileInfoArgs : FileInfo(s, d)
    \/ \E s \in Sockets, d \in FileChunkArgs : FileChunk(s, d)
    \/ \E s \in Sockets, d \in FileCompleteArgs : FileComplete(s, d)
    \/ \E s \in Sockets : Disconnect(s)

RelaySpec == Init /\ [][NextRelay]_vars

(***************************************************************************)
(* Joining and leaving with the same raw string: the connections send      *)
(* join-room and leave-room with a well-formed code, with a string that    *)
(* holds other characters between those of a code, and with a code         *)
(* followed by one character more.                                         *)
(***************************************************************************)
NextInverse ==
    \/ \E s \in Sockets : Connect(s)
    \/ \E s \in Sockets :
          \E raw \in {CodeA, <<"A", "B", "-", "C", "1", " ", "2", "3">>,
                      <<"X", "Y", "Z", "7", "8", "9", "0">>} :
             \/ JoinsSent(s) < MaxJoins /\ JoinRoom(s, Str(raw))
             \/ LeaveRoom(s, Str(raw))

InverseSpec == Init /\ [][NextInverse]_vars

(***************************************************************************)
(* The rate limiter over time: one connection sending join-room events     *)
(* while the clock advances and the sweep runs.                            *)
(***************************************************************************)
RateJoinArgs == {Str(CodeA), Undefined}

NextRate ==
    \/ Connect(Sid(1))
    \/ \E roomId \in RateJoinArgs : JoinRoom(Sid(1), roomId)
    \/ \E d \in TickSteps : Tick(d)
    \/ Sweep

RateSpec == Init /\ [][NextRate]_vars

(***************************************************************************)
(* The relay at capacity.  MAX_ROOM_SIZE + 1 connections are open; the     *)
(* first MAX_ROOM_SIZE - 2 have joined CodeA, each with its first          *)
(* join-room, and stay; the last three act, each having already sent       *)
(* MAX_REQUESTS_PER_WINDOW - JoinsLeft join-room events with a malformed   *)
(* code, all at time 0.                                                    *)
(***************************************************************************)
Residents == {Sid(n) : n \in 1..(MAX_ROOM_SIZE - 2)}

Actors == {Sid(n) : n \in (MAX_ROOM_SIZE - 1)..(MAX_ROOM_SIZE + 1)}

PriorAttempts == [i \in 1..(MAX_REQUESTS_PER_WINDOW - JoinsLeft) |-> 0]

InitCap ==
    /\ InitClient
    /\ now = 0
    /\ ticks = 0
    /\ nextSweep = 0
    /\ connected = Residents \cup Actors
    /\ closed = {}
    /\ rooms = MapPut(EmptyMap, CodeA, [n \in 1..(MAX_ROOM_SIZE - 2) |-> Sid(n)])
    /\ adapter = [r \in Residents \cup Actors \cup {CodeA} |->
                     IF r = CodeA THEN Residents ELSE {r}]
    /\ rateLimit = [s \in Residents \cup Actors |->
                     IF s \in Residents THEN <<0>> ELSE PriorAttempts]
    /\ admittedLog = rateLimit
    /\ prevRooms = rooms
    /\ prevLog = admittedLog
    /\ last = [op |-> "init", socket |-> <<>>, data |-> Undefined]
    /\ emitted = <<>>

CapJoinArgs ==
    {Str(CodeA), Str(<<"a", "b", "c", "1", "2", "3">>), Undefined, Num123456}

NextCap ==
    \/ \E s \in Actors, roomId \in CapJoinArgs : JoinRoom(s, roomId)
    \/ \E s \in Actors : LeaveRoom(s, Str(CodeA))
    \/ \E s \in Actors : Disconnect(s)

CapSpec == InitCap /\ [][NextCap]_vars

(***************************************************************************)
(* The relay during a stream: one connection sends file-chunk events to    *)
(* room CodeA while it and two others connect, join, leave and disconnect. *)
(***************************************************************************)
Streamer == Sid(1)

Listeners == {Sid(2), Sid(3)}

StreamChunk ==
    [room |-> CodeA, fileId |-> 1700000000, chunkIndex |-> 0,
     data |-> "QUJD", isLast |-> FALSE]

NextStream ==
    \/ \E s \in {Streamer} \cup Listeners : Connect(s)
    \/ \E s \in {Streamer} \cup Listeners :
          JoinsSent(s) < MaxJoins /\ JoinRoom(s, Str(CodeA))
    \/ \E s \in Listeners : LeaveRoom(s, Str(CodeA))
    \/ \E s \in Listeners : Disconnect(s)
    \/ FileChunk(Streamer, StreamChunk)

StreamSpec == Init /\ [][NextStream]_vars

(***************************************************************************)
(* WebRTC signaling (src/server.js:137-156) and ping (lines 211-216): each *)
(* handler forwards or answers, and reads neither map.                     *)
(***************************************************************************)
Offer(s, d) ==
    /\ s \in connected
    /\ emitted' = Emit(SocketTo(adapter, s, d.target), "offer",
                       [offer |-> d.offer, sender |-> s])
    /\ last' = [op |-> "offer", socket |-> s, data |-> d]
    /\ prevRooms' = rooms
    /\ prevLog' = admittedLog
    /\ UNCHANGED clientVars
    /\ UNCHANGED <<now, ticks, nextSweep, connected, closed, rooms, adapter,
                   rateLimit, admittedLog>>

Answer(s, d) ==
    /\ s \in connected
    /\ emitted' = Emit(SocketTo(adapter, s, d.target), "answer",
                       [answer |-> d.answer, sender |-> s])
    /\ last' = [op |-> "answer", socket |-> s, data |-> d]
    /\ prevRooms' = rooms
    /\ prevLog' = admittedLog
    /\ UNCHANGED clientVars
    /\ UNCHANGED <<now, ticks, nextSweep, connected, closed, rooms, adapter,
                   rateLimit, admittedLog>>

IceCandidate(s, d) ==
    /\ s \in connected
    /\ emitted' = Emit(SocketTo(adapter, s, d.target), "ice-candidate",
                       [candidate |-> d.candidate, sender |-> s])
    /\ last' = [op |-> "ice-candidate", socket |-> s, data |-> d]
    /\ prevRooms' = rooms
    /\ prevLog' = admittedLog
    /\ UNCHANGED clientVars
    /\ UNCHANGED <<now, ticks, nextSweep, connected, closed, rooms, adapter,
                   rateLimit, admittedLog>>

Ping(s, d) ==
    /\ s \in connected
    /\ emitted' = Emit({s}, "pong", [timestamp |-> d.timestamp, serverTime |-> now])
    /\ last' = [op |-> "ping", socket |-> s, data |-> d]
    /\ prevRooms' = rooms
    /\ prevLog' = admittedLog
    /\ UNCHANGED clientVars
    /\ UNCHANGED <<now, ticks, nextSweep, connected, closed, rooms, adapter,
                   rateLimit, admittedLog>>

(***************************************************************************)
(* Every event type at a relay near its limits: from the state of the      *)
(* capacity specification, the acting connections send join-room with      *)
(* well-formed and malformed codes and every other event the relay         *)
(* handles.                                                                *)
(***************************************************************************)
NextCount ==
    \/ \E s \in Actors, roomId \in CapJoinArgs : JoinRoom(s, roomId)
    \/ \E s \in Actors : LeaveRoom(s, Str(CodeA))
    \/ \E s \in Actors :
          \/ FileInfo(s, [room |-> CodeA, fileId |-> 1700000000,
                          fileName |-> "a.txt", fileSize |-> 131082,
                          mimeType |-> "text/plain"])
          \/ FileChunk(s, StreamChunk)
          \/ FileComplete(s, [room |-> CodeA, fileId |-> 1700000000])
    \/ \E s \in Actors :
          \/ Offer(s, [target |-> Sid(1), offer |-> "sdp"])
          \/ Answer(s, [target |-> Sid(1), answer |-> "sdp"])
          \/ IceCandidate(s, [target |-> Sid(1), candidate |-> "ice"])
    \/ \E s \in Actors : Ping(s, [timestamp |-> now])

CountSpec == InitCap /\ [][NextCount]_vars

(***************************************************************************)
(* The client: files, byte arrays and base64 text.                         *)
(*                                                                         *)
(* A File is known by its name, size and type; the byte at position i of   *)
(* its content is FileByte(file, i).  A byte array (ArrayBuffer,           *)
(* Uint8Array) and a base64 string are written as the expression that      *)
(* produced them, and their length and elements are computed from it as    *)
(* the browser computes them:                                              *)
(*    [kind |-> "read", blob]     the bytes FileReader read from a Blob    *)
(*    [kind |-> "btoa", bytes]    btoa(String.fromCharCode(...bytes))      *)
(*    [kind |-> "atob", text]     the charCodeAt of each char of atob(text)*)
(*    [kind |-> "joined", parts]  a Uint8Array filled with parts in order  *)
(* A char of a base64 string is written as its index 0..63 in the alphabet *)
(* A-Za-z0-9+/, and PadChar stands for "=".                                *)
(***************************************************************************)
fileChunkSize == 65536

File(name, size, seed) ==
    [name |-> name, size |-> size, type |-> "text/plain", seed |-> seed]

FileByte(file, i) == (file.seed + i + (i \div 1000)) % 256

Min(a, b) == IF a <= b THEN a ELSE b

\* Blob.prototype.slice(start, end), both clamped to the size
slice(file, start, end) ==
    [file |-> file, start |-> Min(start, file.size),
     end |-> IF Min(end, file.size) < Min(start, file.size)
             THEN Min(start, file.size) ELSE Min(end, file.size)]

\* FileReader.readAsArrayBuffer(blob), as seen by onload
readAsArrayBuffer(blob) == [kind |-> "read", blob |-> blob]

\* btoa(String.fromCharCode(...new Uint8Array(buffer)))
btoa(bytes) == [kind |-> "btoa", bytes |-> bytes]

PadChar == 64

RECURSIVE ByteLength(_)
RECURSIVE ByteAt(_, _)
RECURSIVE SumLengths(_)
RECURSIVE PartByteAt(_, _)

\* the length of a base64 string: 4 chars for every 3 bytes begun
TextLength(text) == 4 * ((ByteLength(text.bytes) + 2) \div 3)

\* char k (from 0) of a base64 string
CharAt(text, k) ==
    LET n  == ByteLength(text.bytes)
        g  == k \div 4
        b0 == ByteAt(text.bytes, 3 * g)
        b1 == IF 3 * g + 1 < n THEN ByteAt(text.bytes, 3 * g + 1) ELSE 0
        b2 == IF 3 * g + 2 < n THEN ByteAt(text.bytes, 3 * g + 2) ELSE 0
    IN  CASE k % 4 = 0 -> b0 \div 4
          [] k % 4 = 1 -> (b0 % 4) * 16 + (b1 \div 16)
          [] k % 4 = 2 -> IF 3 * g + 1 < n
                          THEN (b1 % 16) * 4 + (b2 \div 64) ELSE PadChar
          [] OTHER     -> IF 3 * g + 2 < n THEN b2 % 64 ELSE PadChar

\* the number of "=" at the end of a base64 string
Padding(text) ==
    LET n == TextLength(text)
    IN  IF n = 0 THEN 0
        ELSE (IF CharAt(text, n - 1) = PadChar THEN 1 ELSE 0)
             + (IF CharAt(text, n - 2) = PadChar THEN 1 ELSE 0)

\* variant: the padding chars are decoded as bytes too
atobLengthPadded(text) == 3 * (TextLength(text) \div 4)

\* binaryString.length for binaryString = atob(text)
atobLength(text) == 3 * (TextLength(text) \div 4) - Padding(text)

\* binaryString.charCodeAt(j) for binaryString = atob(text)
atobCharCodeAt(text, j) ==
    LET g  == j \div 3
        c0 == CharAt(text, 4 * g)
        c1 == CharAt(text, 4 * g + 1)
        c2 == CharAt(text, 4 * g + 2)
        c3 == CharAt(text, 4 * g + 3)
    IN  CASE j % 3 = 0 -> c0 * 4 + (c1 \div 16)
          [] j % 3 = 1 -> (c1 % 16) * 16 + (c2 \div 4)
          [] OTHER     -> (c2 % 4) * 64 + c3

\* the Uint8Array that handleFileChunk fills from atob(text)
atob(text) == [kind |-> "atob", text |-> text]

SumLengths(parts) ==
    IF parts = <<>> THEN 0
    ELSE ByteLength(Head(parts)) + SumLengths(Tail(parts))

ByteLength(bytes) ==
    CASE bytes.kind = "read" -> bytes.blob.end - bytes.blob.start
      [] bytes.kind = "atob" -> atobLength(bytes.text)
      [] OTHER               -> SumLengths(bytes.parts)

PartByteAt(parts, i) ==
    IF i < ByteLength(Head(parts)) THEN ByteAt(Head(parts), i)
    ELSE PartByteAt(Tail(parts), i - ByteLength(Head(parts)))

\* element i (from 0) of a byte array
ByteAt(bytes, i) ==
    CASE bytes.kind = "read" -> FileByte(bytes.blob.file, bytes.blob.start + i)
      [] bytes.kind = "atob" -> atobCharCodeAt(bytes.text, i)
      [] OTHER               -> PartByteAt(bytes.parts, i)

Digit == <<"0", "1", "2", "3", "4", "5", "6", "7", "8", "9">>

RECURSIVE toString(_)
\* Number.prototype.toString() of a non-negative integer
toString(n) ==
    IF n < 10 THEN <<Digit[n + 1]>>
    ELSE toString(n \div 10) \o <<Digit[(n % 10) + 1]>>

(***************************************************************************)
(* The client: room, peers and files to send.                              *)
(***************************************************************************)
NoSocket == <<>>

ClientOp(op, data) == [op |-> op, socket |-> NoSocket, data |-> data]

\* this.socket.emit(event, data), made by the call-th sendFile (0: by none)
ClientEmit(box, event, data, call) ==
    Append(box, [event |-> event, data |-> data, call |-> call,
                 connected |-> socketConnected])

IsSpace(c) == c = " "

RECURSIVE trimStart(_)
trimStart(str) ==
    IF str # <<>> /\ IsSpace(Head(str)) THEN trimStart(Tail(str)) ELSE str

RECURSIVE trimEnd(_)
trimEnd(str) ==
    IF str # <<>> /\ IsSpace(str[Len(str)])
    THEN trimEnd(SubSeq(str, 1, Len(str) - 1)) ELSE str

\* String.prototype.trim
trim(str) == trimEnd(trimStart(str))

\* joinRoom(), lines 212-238, with `input` in the room-code field
joinRoom(input) ==
    LET roomCode == toUpperCase(trim(input))
    IN  /\ last' = ClientOp("joinRoom", Str(input))
        /\ IF roomCode = <<>> \/ Len(roomCode) # 6
           THEN UNCHANGED <<currentRoom, outbox>>
           ELSE /\ currentRoom' = Str(roomCode)
                /\ outbox' = ClientEmit(outbox, "join-room", Str(roomCode), 0)
        /\ UNCHANGED <<connectedPeers, filesToSend, receivingFiles,
                       activeTransfers, socketConnected, lastPongTime,
                       connectionHealthy, isAppVisible, loops, resumeTimers,
                       inbox, downloads>>
        /\ UNCHANGED <<now, ticks, relayVars>>

\* goBack(), lines 260-283
goBack ==
    /\ last' = ClientOp("goBack", currentRoom)
    /\ IF currentRoom # Null
       THEN /\ outbox' = ClientEmit(outbox, "leave-room", currentRoom, 0)
            /\ currentRoom' = Null
       ELSE UNCHANGED <<currentRoom, outbox>>
    /\ connectedPeers' = {}
    /\ filesToSend' = EmptyMap
    /\ receivingFiles' = EmptyMap
    /\ UNCHANGED <<activeTransfers, socketConnected, lastPongTime,
                   connectionHealthy, isAppVisible, loops, resumeTimers,
                   inbox, downloads>>
    /\ UNCHANGED <<now, ticks, relayVars>>

\* the "users-in-room" listener, lines 150-158
onUsersInRoom(users) ==
    /\ last' = ClientOp("users-in-room", [users |-> users])
    /\ connectedPeers' = Range(users)
    /\ UNCHANGED <<currentRoom, filesToSend, receivingFiles, activeTransfers,
                   socketConnected, lastPongTime, connectionHealthy,
                   isAppVisible, loops, resumeTimers, outbox, inbox, downloads>>
    /\ UNCHANGED <<now, ticks, relayVars>>

\* the "user-joined" listener, lines 160-166
onUserJoined(userId) ==
    /\ last' = ClientOp("user-joined", [userId |-> userId])
    /\ connectedPeers' = connectedPeers \cup {userId}
    /\ UNCHANGED <<currentRoom, filesToSend, receivingFiles, activeTransfers,
                   socketConnected, lastPongTime, connectionHealthy,
                   isAppVisible, loops, resumeTimers, outbox, inbox, downloads>>
    /\ UNCHANGED <<now, ticks, relayVars>>

\* variant: the listener leaves the peer in the set
onUserLeftKeeps(userId) ==
    /\ last' = ClientOp("user-left", [userId |-> userId])
    /\ UNCHANGED <<currentRoom, connectedPeers, filesToSend, receivingFiles,
                   activeTransfers, socketConnected, lastPongTime,
                   connectionHealthy, isAppVisible, loops, resumeTimers,
                   outbox, inbox, downloads>>
    /\ UNCHANGED <<now, ticks, relayVars>>

\* the "user-left" listener, lines 168-174
onUserLeft(userId) ==
    /\ last' = ClientOp("user-left", [userId |-> userId])
    /\ connectedPeers' = connectedPeers \ {userId}
    /\ UNCHANGED <<currentRoom, filesToSend, receivingFiles, activeTransfers,
                   socketConnected, lastPongTime, connectionHealthy,
                   isAppVisible, loops, resumeTimers, outbox, inbox, downloads>>
    /\ UNCHANGED <<now, ticks, relayVars>>

MAX_SIZE == 100 * 1024 * 1024

\* validateFile(file), lines 383-402; no modelled file has a blocked extension
validateFile(file) == ~(file.size > MAX_SIZE)

\* handleFiles([file]), lines 348-363 and 404-418
handleFiles(file) ==
    /\ last' = ClientOp("handleFiles", [name |-> file.name])
    /\ filesToSend' = IF validateFile(file)
                      THEN MapPut(filesToSend, file.name, file)
                      ELSE filesToSend
    /\ UNCHANGED <<currentRoom, connectedPeers, receivingFiles,
                   activeTransfers, socketConnected, lastPongTime,
                   connectionHealthy, isAppVisible, loops, resumeTimers,
                   outbox, inbox, downloads>>
    /\ UNCHANGED <<now, ticks, relayVars>>

(***************************************************************************)
(* The client: sending a file.  sendFile runs to the first                 *)
(* reader.readAsArrayBuffer; from then on the closure is driven by two     *)
(* callbacks, reader.onload and the setTimeout that calls sendNextChunk.   *)
(* A closure is [call, fileId, file, chunkSize, offset, chunkIndex, pc],   *)
(* pc being "reading" (a read is pending), "timer" (a timeout is pending)  *)
(* or "done".                                                              *)
(***************************************************************************)
\* variant: the last chunk is recognised only when it is cut short
IsLastStrict(offset, chunkSize, size) == offset + chunkSize > size

\* isLast: offset + chunkSize >= file.size, line 477
IsLast(offset, chunkSize, size) == offset + chunkSize >= size

\* variant: one more slice is scheduled when the offset equals the size
MoreToSendInclusive(offset, size) == offset <= size

\* offset < file.size, line 487
MoreToSend(offset, size) == offset < size

\* variant: the offset advances by one byte less than was sent
NextOffsetShort(offset, chunkSize) == offset + chunkSize - 1

\* offset += chunkSize, line 480
NextOffset(offset, chunkSize) == offset + chunkSize

\* sendFile(fileName), lines 421-460 and 506, up to the first read
sendFile(fileName) ==
    /\ last' = ClientOp("sendFile", [name |-> fileName, sent |-> Len(outbox)])
    /\ IF fileName \notin DOMAIN filesToSend \/ connectedPeers = {}
       THEN UNCHANGED <<activeTransfers, loops, outbox>>
       ELSE LET file   == filesToSend[fileName]
                fileId == Str(toString(now))
                call   == Len(loops) + 1
            IN  /\ activeTransfers' =
                      MapPut(activeTransfers, fileId,
                             [file |-> file, fileName |-> fileName,
                              startTime |-> now, paused |-> FALSE])
                /\ outbox' =
                      ClientEmit(outbox, "file-info",
                                 [room |-> currentRoom, fileId |-> fileId,
                                  fileName |-> file.name,
                                  fileSize |-> file.size,
                                  mimeType |-> file.type], call)
                /\ loops' =
                      Append(loops,
                             [call |-> call, fileId |-> fileId, file |-> file,
                              chunkSize |-> fileChunkSize, offset |-> 0,
                              chunkIndex |-> 0, pc |-> "reading"])
    /\ UNCHANGED <<currentRoom, connectedPeers, filesToSend, receivingFiles,
                   socketConnected, lastPongTime, connectionHealthy,
                   isAppVisible, resumeTimers, inbox, downloads>>
    /\ UNCHANGED <<now, ticks, relayVars>>

\* the file-chunk event of lines 472-478 for closure l
ChunkEvent(l) ==
    [room |-> currentRoom, fileId |-> l.fileId, chunkIndex |-> l.chunkIndex,
     data |-> btoa(readAsArrayBuffer(
                     slice(l.file, l.offset, l.offset + l.chunkSize))),
     isLast |-> IsLast(l.offset, l.chunkSize, l.file.size)]

\* reader.onload of the k-th closure, lines 466-501
readerOnload(k) ==
    /\ k \in 1..Len(loops)
    /\ loops[k].pc = "reading"
    /\ LET l      == loops[k]
           offset == NextOffset(l.offset, l.chunkSize)
           more   == MoreToSend(offset, l.file.size)
           sent   == ClientEmit(outbox, "file-chunk", ChunkEvent(l), l.call)
       IN  /\ last' = ClientOp("reader.onload", [call |-> l.call])
           /\ outbox' =
                 IF more THEN sent
                 ELSE ClientEmit(sent, "file-complete",
                                 [room |-> currentRoom, fileId |-> l.fileId],
                                 l.call)
           /\ loops' =
                 [loops EXCEPT ![k] =
                     [l EXCEPT !.offset = offset,
                               !.chunkIndex = l.chunkIndex + 1,
                               !.pc = IF more THEN "timer" ELSE "done"]]
    /\ UNCHANGED <<currentRoom, connectedPeers, filesToSend, receivingFiles,
                   activeTransfers, socketConnected, lastPongTime,
                   connectionHealthy, isAppVisible, resumeTimers, inbox,
                   downloads>>
    /\ UNCHANGED <<now, ticks, relayVars>>

\* the setTimeout callback of line 491: sendNextChunk, lines 462-464 and 503
sendNextChunk(k) ==
    /\ k \in 1..Len(loops)
    /\ loops[k].pc = "timer"
    /\ last' = ClientOp("sendNextChunk", [call |-> loops[k].call])
    /\ loops' = [loops EXCEPT ![k].pc = "reading"]
    /\ UNCHANGED <<currentRoom, connectedPeers, filesToSend, receivingFiles,
                   activeTransfers, socketConnected, lastPongTime,
                   connectionHealthy, isAppVisible, resumeTimers, outbox,
                   inbox, downloads>>
    /\ UNCHANGED <<now, ticks, relayVars>>

(***************************************************************************)
(* The client: connection monitoring.  The callbacks that may call         *)
(* this.socket.connect() record in last.data.connect whether they did.     *)
(***************************************************************************)
PONG_TIMEOUT == 30000

\* variant: transfers are not marked when the transport closes
PausedOnDisconnectNever(transfers) == transfers

\* handleTransferDisconnection, lines 888-903: every transfer is marked paused
PausedOnDisconnect(transfers) ==
    [id \in DOMAIN transfers |-> [transfers[id] EXCEPT !.paused = TRUE]]

\* the "disconnect" listeners, lines 121-126 and 809-812
onDisconnect ==
    /\ socketConnected
    /\ last' = ClientOp("disconnect", Undefined)
    /\ socketConnected' = FALSE
    /\ connectedPeers' = {}
    /\ activeTransfers' = PausedOnDisconnect(activeTransfers)
    /\ UNCHANGED <<currentRoom, filesToSend, receivingFiles, lastPongTime,
                   connectionHealthy, isAppVisible, loops, resumeTimers,
                   outbox, inbox, downloads>>
    /\ UNCHANGED <<now, ticks, relayVars>>

\* handleTransferReconnection, lines 906-912: whether join-room is emitted
RejoinsOnReconnect == DOMAIN activeTransfers # {} /\ currentRoom # Null

\* the transport is up again: the "reconnect" listeners, lines 134-137 and
\* 814-817 with handleTransferReconnection, lines 905-925
onReconnect ==
    /\ ~socketConnected
    /\ last' = ClientOp("reconnect", [sent |-> Len(outbox)])
    /\ socketConnected' = TRUE
    /\ outbox' = IF RejoinsOnReconnect
                 THEN Append(outbox,
                             [event |-> "join-room", data |-> currentRoom,
                              call |-> 0, connected |-> TRUE])
                 ELSE outbox
    /\ resumeTimers' = IF DOMAIN activeTransfers # {}
                       THEN resumeTimers + 1 ELSE resumeTimers
    /\ UNCHANGED <<currentRoom, connectedPeers, filesToSend, receivingFiles,
                   activeTransfers, lastPongTime, connectionHealthy,
                   isAppVisible, loops, inbox, downloads>>
    /\ UNCHANGED <<now, ticks, relayVars>>

\* the setTimeout callback of lines 915-923, 2 s after a reconnect
onResumeTimeout ==
    /\ resumeTimers > 0
    /\ last' = ClientOp("resumeTimeout", Undefined)
    /\ resumeTimers' = resumeTimers - 1
    /\ activeTransfers' =
          [id \in DOMAIN activeTransfers |->
              [activeTransfers[id] EXCEPT !.paused = FALSE]]
    /\ UNCHANGED <<currentRoom, connectedPeers, filesToSend, receivingFiles,
                   socketConnected, lastPongTime, connectionHealthy,
                   isAppVisible, loops, outbox, inbox, downloads>>
    /\ UNCHANGED <<now, ticks, relayVars>>

\* the setInterval callback of startConnectionDiagnostics, lines 41-46
onDiagnosticsInterval ==
    /\ last' = ClientOp("diagnostics",
                        [connect |-> ~socketConnected /\ currentRoom # Null])
    /\ UNCHANGED clientVars
    /\ UNCHANGED <<now, ticks, relayVars>>

\* the setInterval callback of startEnhancedPing, lines 847-855
onPingInterval ==
    /\ last' = ClientOp("pingInterval", [connect |-> FALSE])
    /\ outbox' = IF socketConnected
                 THEN ClientEmit(outbox, "ping",
                                 [timestamp |-> now,
                                  hasActiveTransfers |->
                                      DOMAIN activeTransfers # {},
                                  isBackground |-> ~isAppVisible], 0)
                 ELSE outbox
    /\ UNCHANGED <<currentRoom, connectedPeers, filesToSend, receivingFiles,
                   activeTransfers, socketConnected, lastPongTime,
                   connectionHealthy, isAppVisible, loops, resumeTimers,
                   inbox, downloads>>
    /\ UNCHANGED <<now, ticks, relayVars>>

\* the "pong" listener, lines 799-806
onPong(data) ==
    /\ last' = ClientOp("pong", data)
    /\ lastPongTime' = now
    /\ connectionHealthy' = TRUE
    /\ UNCHANGED <<currentRoom, connectedPeers, filesToSend, receivingFiles,
                   activeTransfers, socketConnected, isAppVisible, loops,
                   resumeTimers, outbox, inbox, downloads>>
    /\ UNCHANGED <<now, ticks, relayVars>>

\* timeSinceLastPong > 30000, lines 859-861
PongOverdue == now - lastPongTime > PONG_TIMEOUT

\* the "visibilitychange" listener, lines 725-761, with checkConnectionHealth,
\* lines 858-875, run when the page becomes visible
onVisibilityChange(hidden) ==
    /\ isAppVisible' = ~hidden
    /\ IF hidden
       THEN /\ last' = ClientOp("visibilitychange",
                                [hidden |-> TRUE, connect |-> FALSE])
            /\ UNCHANGED connectionHealthy
       ELSE /\ last' = ClientOp("visibilitychange",
                                [hidden |-> FALSE,
                                 connect |-> PongOverdue /\ ~socketConnected])
            /\ connectionHealthy' =
                  IF PongOverdue THEN FALSE ELSE connectionHealthy
    /\ UNCHANGED <<currentRoom, connectedPeers, filesToSend, receivingFiles,
                   activeTransfers, socketConnected, lastPongTime, loops,
                   resumeTimers, outbox, inbox, downloads>>
    /\ UNCHANGED <<now, ticks, relayVars>>

(***************************************************************************)
(* The sender: one client that selects files, joins and leaves a room,     *)
(* learns of peers, sends files and loses and regains its transport while  *)
(* the chunk loops run.                                                    *)
(***************************************************************************)
MaxSends == 1

MaxReconnects == 1

SendFiles ==
    {File("empty.txt", 0, 11), File("one.bin", fileChunkSize, 22),
     File("more.bin", fileChunkSize + 10, 33),
     File("two.bin", 2 * fileChunkSize, 44)}

\* the names on the Send buttons, and one that is on none
SendNames == (DOMAIN filesToSend) \cup {"missing.txt"}

\* how many events `event` the client has emitted
Emitted(event) ==
    Cardinality({i \in 1..Len(outbox) : outbox[i].event = event})

\* the client has joined room ABC123, has been told of one peer and has
\* selected one of `files`
JoinedClient(files) ==
    /\ currentRoom = Str(CodeA)
    /\ connectedPeers = {Sid(2)}
    /\ \E f \in files : filesToSend = MapPut(EmptyMap, f.name, f)
    /\ receivingFiles = EmptyMap
    /\ activeTransfers = EmptyMap
    /\ socketConnected = TRUE
    /\ lastPongTime = 0
    /\ connectionHealthy = TRUE
    /\ isAppVisible = TRUE
    /\ loops = <<>>
    /\ resumeTimers = 0
    /\ outbox = <<[event |-> "join-room", data |-> Str(CodeA), call |-> 0,
                   connected |-> TRUE]>>
    /\ inbox = <<>>
    /\ downloads = <<>>

\* the same, the relay being left out of the picture
InitJoined(files) == InitRelay /\ JoinedClient(files)

InitSend == InitJoined(SendFiles)

NextSend ==
    \/ currentRoom # Null /\ goBack
    \/ Sid(2) \in connectedPeers /\ onUserLeft(Sid(2))
    \/ \E name \in SendNames : Len(loops) < MaxSends /\ sendFile(name)
    \/ \E k \in 1..MaxSends : readerOnload(k)
    \/ \E k \in 1..MaxSends : sendNextChunk(k)
    \/ onDisconnect
    \/ resumeTimers < MaxReconnects /\ Emitted("join-room") < MaxJoins
          /\ onReconnect
    \/ onResumeTimeout

SendSpec == InitSend /\ [][NextSend]_vars

\* the same, with every pending FileReader read completing and every pending
\* timeout firing
SendFairSpec ==
    /\ SendSpec
    /\ \A k \in 1..MaxSends :
          WF_vars(readerOnload(k)) /\ WF_vars(sendNextChunk(k))

(***************************************************************************)
(* The client: receiving a file.  fileInfo.chunks, a JavaScript array      *)
(* written at arbitrary indices, is a map from the indices written to the  *)
(* byte arrays stored there; reduce and forEach visit them in index order  *)
(* and skip the holes.                                                     *)
(***************************************************************************)
\* the session handleFileInfo stores, lines 513-520
NewSession(data) ==
    [fileName |-> data.fileName, fileSize |-> data.fileSize,
     mimeType |-> data.mimeType, chunks |-> EmptyMap, receivedSize |-> 0,
     startTime |-> now]

\* variant: the decoded chunk is pushed at the end of the array
StoreChunkPushed(chunks, index, bytes) ==
    MapPut(chunks, Cardinality(DOMAIN chunks), bytes)

\* fileInfo.chunks[data.chunkIndex] = bytes, line 538
StoreChunk(chunks, index, bytes) == MapPut(chunks, index, bytes)

\* variant: the counter follows the bytes held, an entry that is replaced
\* being taken off before the new one is added
SessionWithChunkExact(session, data) ==
    [session EXCEPT
        !.chunks = StoreChunk(session.chunks, data.chunkIndex, atob(data.data)),
        !.receivedSize =
            session.receivedSize + ByteLength(atob(data.data))
            - (IF data.chunkIndex \in DOMAIN session.chunks
               THEN ByteLength(session.chunks[data.chunkIndex]) ELSE 0)]

\* the session after handleFileChunk, lines 532-539
SessionWithChunk(session, data) ==
    [session EXCEPT
        !.chunks = StoreChunk(session.chunks, data.chunkIndex, atob(data.data)),
        !.receivedSize = session.receivedSize + ByteLength(atob(data.data))]

RECURSIVE InIndexOrder(_)
\* the entries of a chunks array in index order, holes left out
InIndexOrder(chunks) ==
    IF DOMAIN chunks = {} THEN <<>>
    ELSE LET top == CHOOSE i \in DOMAIN chunks :
                        \A j \in DOMAIN chunks : j <= i
         IN  Append(InIndexOrder(MapDelete(chunks, top)), chunks[top])

\* variant: the size announced by file-info is taken for the size
totalSizeDeclared(session) == session.fileSize

\* totalSize, lines 561-564: the lengths of the entries present, added up
totalSize(session) == SumLengths(InIndexOrder(session.chunks))

\* completeFile and the Blob made of it, lines 565-575
BlobOf(session) ==
    [bytes |-> [kind |-> "joined", parts |-> InIndexOrder(session.chunks)],
     size |-> totalSize(session),
     type |-> session.mimeType]

\* handleFileInfo(data), lines 510-525
handleFileInfo(data) ==
    /\ last' = ClientOp("file-info", data)
    /\ receivingFiles' = MapPut(receivingFiles, data.fileId, NewSession(data))
    /\ UNCHANGED <<currentRoom, connectedPeers, filesToSend, activeTransfers,
                   socketConnected, lastPongTime, connectionHealthy,
                   isAppVisible, loops, resumeTimers, outbox, downloads>>
    /\ UNCHANGED <<now, ticks, relayVars>>

\* variant: a chunk that finds no session opens one
handleFileChunkOpens(data) ==
    /\ last' = ClientOp("file-chunk", data)
    /\ receivingFiles' =
          MapPut(receivingFiles, data.fileId,
                 SessionWithChunk(
                    IF data.fileId \in DOMAIN receivingFiles
                    THEN receivingFiles[data.fileId]
                    ELSE [fileName |-> "", fileSize |-> 0, mimeType |-> "",
                          chunks |-> EmptyMap, receivedSize |-> 0,
                          startTime |-> now],
                    data))
    /\ UNCHANGED <<currentRoom, connectedPeers, filesToSend, activeTransfers,
                   socketConnected, lastPongTime, connectionHealthy,
                   isAppVisible, loops, resumeTimers, outbox, downloads>>
    /\ UNCHANGED <<now, ticks, relayVars>>

\* handleFileChunk(data), lines 527-552
handleFileChunk(data) ==
    /\ last' = ClientOp("file-chunk", data)
    /\ receivingFiles' =
          IF data.fileId \in DOMAIN receivingFiles
          THEN MapPut(receivingFiles, data.fileId,
                      SessionWithChunk(receivingFiles[data.fileId], data))
          ELSE receivingFiles
    /\ UNCHANGED <<currentRoom, connectedPeers, filesToSend, activeTransfers,
                   socketConnected, lastPongTime, connectionHealthy,
                   isAppVisible, loops, resumeTimers, outbox, downloads>>
    /\ UNCHANGED <<now, ticks, relayVars>>

\* handleFileComplete(data), lines 554-580
handleFileComplete(data) ==
    /\ last' = ClientOp("file-complete", data)
    /\ IF data.fileId \in DOMAIN receivingFiles
       THEN /\ downloads' =
                  Append(downloads,
                         [fileId |-> data.fileId,
                          fileName |-> receivingFiles[data.fileId].fileName,
                          blob |-> BlobOf(receivingFiles[data.fileId])])
            /\ receivingFiles' = MapDelete(receivingFiles, data.fileId)
       ELSE UNCHANGED <<receivingFiles, downloads>>
    /\ UNCHANGED <<currentRoom, connectedPeers, filesToSend, activeTransfers,
                   socketConnected, lastPongTime, connectionHealthy,
                   isAppVisible, loops, resumeTimers, outbox>>
    /\ UNCHANGED <<now, ticks, relayVars>>

(***************************************************************************)
(* A transfer from end to end.  The sending fields (filesToSend, loops,    *)
(* outbox) are those of the client with connection SenderId, the receiving *)
(* fields (receivingFiles, inbox, downloads) those of another client in    *)
(* the same room; both run the same code and the two groups of fields have *)
(* nothing in common.  The relay hands every file event of the sender to   *)
(* the receiver once, in any order.                                        *)
(***************************************************************************)
SenderId == Sid(1)

RecvFiles ==
    {File("empty.txt", 0, 11), File("tiny.txt", 10, 22),
     File("more.bin", fileChunkSize + 10, 33),
     File("three.bin", 2 * fileChunkSize + 10, 44)}

\* what the relay emits to the room for an event of connection s
\* (src/server.js:159-191)
Relayed(event, d, s) ==
    CASE event = "file-info" ->
           [fileId |-> d.fileId, fileName |-> d.fileName,
            fileSize |-> d.fileSize, mimeType |-> d.mimeType, sender |-> s]
      [] event = "file-chunk" ->
           [fileId |-> d.fileId, chunkIndex |-> d.chunkIndex, data |-> d.data,
            isLast |-> d.isLast, sender |-> s]
      [] OTHER -> [fileId |-> d.fileId, sender |-> s]

Delivered(i) == \E j \in 1..Len(inbox) : inbox[j].of = i

\* the listeners of lines 177-187, run for the i-th event the sender emitted
deliver(i) ==
    /\ i \in 1..Len(outbox)
    /\ outbox[i].event \in {"file-info", "file-chunk", "file-complete"}
    /\ ~Delivered(i)
    /\ LET event == outbox[i].event
           data  == Relayed(event, outbox[i].data, SenderId)
       IN  /\ inbox' = Append(inbox, [of |-> i, event |-> event, data |-> data])
           /\ CASE event = "file-info"  -> handleFileInfo(data)
                [] event = "file-chunk" -> handleFileChunk(data)
                [] OTHER                -> handleFileComplete(data)

InitRecv == InitJoined(RecvFiles)

NextRecv ==
    \/ \E name \in DOMAIN filesToSend : loops = <<>> /\ sendFile(name)
    \/ readerOnload(1)
    \/ sendNextChunk(1)
    \/ \E i \in 1..Len(outbox) : deliver(i)

RecvSpec == InitRecv /\ [][NextRecv]_vars

(***************************************************************************)
(* The receiver and what the relay may hand it.  Any member of the room    *)
(* can make the relay deliver any file event (src/server.js:159-191), so   *)
(* the events arrive in any order, any number of times: those of a file of *)
(* three chunks sent by one member and those of a file of two chunks sent  *)
(* by another, both under the same fileId.  The user may leave the room    *)
(* and join it again.                                                      *)
(***************************************************************************)
MaxArrivals == 4

OtherSender == Sid(3)

ArrivalFileId == Str(toString(0))

ArrivalFile(s) ==
    IF s = SenderId THEN File("three.bin", 2 * fileChunkSize + 10, 44)
    ELSE File("other.bin", fileChunkSize + 10, 33)

\* the chunks sendFile makes of a file
ChunkCount(file) ==
    IF file.size = 0 THEN 1
    ELSE (file.size + fileChunkSize - 1) \div fileChunkSize

\* the file events sendFile of connection s emits for ArrivalFile(s), as the
\* relay forwards them
ArrivalEvents(s) ==
    LET file == ArrivalFile(s)
        l(i) == [fileId |-> ArrivalFileId, file |-> file,
                 chunkSize |-> fileChunkSize, offset |-> i * fileChunkSize,
                 chunkIndex |-> i]
    IN  {[event |-> "file-info",
          data |-> Relayed("file-info",
                           [fileId |-> ArrivalFileId, fileName |-> file.name,
                            fileSize |-> file.size, mimeType |-> file.type],
                           s)]}
        \cup {[event |-> "file-chunk",
               data |-> Relayed("file-chunk", ChunkEvent(l(i)), s)] :
                 i \in 0..(ChunkCount(file) - 1)}
        \cup {[event |-> "file-complete",
               data |-> Relayed("file-complete",
                                [fileId |-> ArrivalFileId], s)]}

\* the listeners of lines 177-187, run for an event the relay delivers
arrive(e) ==
    /\ inbox' = Append(inbox, [of |-> 0, event |-> e.event, data |-> e.data])
    /\ CASE e.event = "file-info"  -> handleFileInfo(e.data)
         [] e.event = "file-chunk" -> handleFileChunk(e.data)
         [] OTHER                  -> handleFileComplete(e.data)

NextArrival ==
    \/ \E s \in {SenderId, OtherSender} : \E e \in ArrivalEvents(s) :
          currentRoom # Null /\ Len(inbox) < MaxArrivals /\ arrive(e)
    \/ currentRoom # Null /\ goBack
    \/ currentRoom = Null /\ Emitted("join-room") < MaxJoins
          /\ joinRoom(CodeA)

ArrivalSpec == InitJoined({ArrivalFile(OtherSender)}) /\ [][NextArrival]_vars

(***************************************************************************)
(* A sender that changes rooms.  The client, connection SenderId, is in    *)
(* room CodeA with Sid(2); Sid(3) is in room CodeB.  It sends a file, and  *)
(* while the chunk loop runs the user may leave the room and join CodeA or *)
(* CodeB.  The relay's maps are those it has once the join-room the client *)
(* emitted first has been handled.                                         *)
(***************************************************************************)
InitSwitch ==
    /\ JoinedClient(SendFiles)
    /\ now = 0
    /\ ticks = 0
    /\ nextSweep = 0
    /\ connected = {Sid(1), Sid(2), Sid(3)}
    /\ closed = {}
    /\ rooms = MapPut(MapPut(EmptyMap, CodeA, <<Sid(1), Sid(2)>>),
                      CodeB, <<Sid(3)>>)
    /\ adapter = [r \in connected \cup {CodeA, CodeB} |->
                     IF r = CodeA THEN {Sid(1), Sid(2)}
                     ELSE IF r = CodeB THEN {Sid(3)} ELSE {r}]
    /\ rateLimit = [s \in connected |-> <<0>>]
    /\ admittedLog = rateLimit
    /\ prevRooms = rooms
    /\ prevLog = admittedLog
    /\ last = [op |-> "init", socket |-> <<>>, data |-> Undefined]
    /\ emitted = <<>>

NextSwitch ==
    \/ \E name \in DOMAIN filesToSend : loops = <<>> /\ sendFile(name)
    \/ readerOnload(1)
    \/ sendNextChunk(1)
    \/ currentRoom # Null /\ goBack
    \/ \E input \in {CodeA, CodeB} :
          currentRoom = Null /\ Emitted("join-room") < MaxJoins
             /\ joinRoom(input)

SwitchSpec == InitSwitch /\ [][NextSwitch]_vars

(***************************************************************************)
(* The client and its connection: from the constructor on, the user joins  *)
(* and leaves a room and may send one small file, the transport goes down  *)
(* and comes back, the page is hidden and shown, time passes, pongs        *)
(* arrive, and the interval callbacks run.                                 *)
(***************************************************************************)
MaxPings == 1

MonitorJoinInputs == {<<" ", "a", "b", "c", "1", "2", "3">>, <<"A", "B">>}

MonitorFile == File("tiny.txt", 10, 22)

MonitorTickSteps == {PONG_TIMEOUT, PONG_TIMEOUT + 1}

PongData == [timestamp |-> 0, serverTime |-> 0]

NextMonitor ==
    \/ \E input \in MonitorJoinInputs :
          currentRoom = Null /\ Emitted("join-room") < MaxJoins - 1
             /\ joinRoom(input)
    \/ currentRoom # Null /\ goBack
    \/ currentRoom # Null /\ socketConnected /\ connectedPeers = {}
          /\ onUsersInRoom(<<Sid(2)>>)
    \/ filesToSend = EmptyMap /\ loops = <<>> /\ handleFiles(MonitorFile)
    \/ loops = <<>> /\ sendFile(MonitorFile.name)
    \/ readerOnload(1)
    \/ onDisconnect
    \/ resumeTimers < MaxReconnects /\ Emitted("join-room") < MaxJoins
          /\ onReconnect
    \/ onResumeTimeout
    \/ onDiagnosticsInterval
    \/ Emitted("ping") < MaxPings /\ onPingInterval
    \/ socketConnected /\ onPong(PongData)
    \/ \E hidden \in BOOLEAN : hidden = isAppVisible /\ onVisibilityChange(hidden)
    \/ \E d \in MonitorTickSteps : Tick(d)

MonitorSpec == Init /\ [][NextMonitor]_vars

(***************************************************************************)
(* One client and the relay together.  The client holds the first          *)
(* connection, two peers the next two; all are open and in no room.  Every *)
(* event is handled before the next thing happens: what the client emits   *)
(* is handled by the relay in the next step, with the id of the client's   *)
(* connection, and what that handler sends to the client is handled by     *)
(* the client's listener in the step after.  The user joins only from the  *)
(* connection screen and goes back only from the room screen (lines        *)
(* 231-234 and 267-269 swap the two), and acts while the socket is         *)
(* connected.  When the transport drops, the client's listener runs, the   *)
(* relay handles the disconnect, and a reconnect is a new connection with  *)
(* a new id.  The peers send join-room and leave-room for ABC123, the      *)
(* first of them also when it is a member already, and disconnect.         *)
(***************************************************************************)
Peer == Sid(2)

Peers == {Peer, Sid(3)}

\* the id of the client's latest connection
ClientId ==
    LET mine == {n \in 1..Len(SidChar) :
                    Sid(n) \notin Peers /\ Sid(n) \in connected \cup closed}
    IN  Sid(CHOOSE n \in mine : \A m \in mine : m <= n)

\* the event the client has emitted and the relay has not handled yet
ToRelay ==
    IF outbox = <<>> THEN <<>>
    ELSE LET e == outbox[Len(outbox)]
         IN  IF \/ /\ last.op = "joinRoom"
                    /\ e.event = "join-room"
                    /\ e.data = Str(toUpperCase(trim(last.data.chars)))
                 \/ (last.op = "goBack" /\ last.data # Null)
                 \/ (last.op = "reconnect" /\ Len(outbox) > last.data.sent)
             THEN <<e>>
             ELSE <<>>

\* the room events the relay's last handler sent to the client, which the
\* client has not handled yet
ForClient ==
    IF last.socket # NoSocket
    THEN SelectSeq(emitted,
                   LAMBDA m : /\ m.to = ClientId
                              /\ m.event \in {"users-in-room", "user-joined",
                                               "user-left"})
    ELSE <<>>

\* the relay has not handled the close of the client's connection yet
CloseUnhandled == ~socketConnected /\ ClientId \in connected /\ last.op = "disconnect"

\* all emitted events are handled
Quiescent == ToRelay = <<>> /\ ForClient = <<>> /\ ~CloseUnhandled

InitView ==
    /\ InitClient
    /\ now = 0
    /\ ticks = 0
    /\ nextSweep = 0
    /\ connected = {Sid(1)} \cup Peers
    /\ closed = {}
    /\ rooms = EmptyMap
    /\ adapter = [r \in {Sid(1)} \cup Peers |-> {r}]
    /\ rateLimit = EmptyMap
    /\ admittedLog = EmptyMap
    /\ prevRooms = EmptyMap
    /\ prevLog = EmptyMap
    /\ last = [op |-> "init", socket |-> <<>>, data |-> Undefined]
    /\ emitted = <<>>

NextView ==
    \/ /\ Quiescent /\ socketConnected
       /\ \/ \E input \in {<<" ", "a", "b", "c", "1", "2", "3">>, CodeB,
                             <<"A", "B", "-", "1", "2", "3">>} :
                currentRoom = Null /\ Emitted("join-room") < MaxJoins
                   /\ joinRoom(input)
          \/ (currentRoom # Null /\ goBack)
          \/ onDisconnect
    \/ /\ ToRelay # <<>>
       /\ \/ (ToRelay[1].event = "join-room" /\ JoinRoom(ClientId, ToRelay[1].data))
          \/ (ToRelay[1].event = "leave-room" /\ LeaveRoom(ClientId, ToRelay[1].data))
    \/ /\ ForClient # <<>>
       /\ \/ (ForClient[1].event = "users-in-room" /\ onUsersInRoom(ForClient[1].data))
          \/ (ForClient[1].event = "user-joined" /\ onUserJoined(ForClient[1].data))
          \/ (ForClient[1].event = "user-left" /\ onUserLeft(ForClient[1].data))
    \/ CloseUnhandled /\ Disconnect(ClientId)
    \/ /\ ~socketConnected /\ ClientId \in closed
       /\ Cardinality(connected \cup closed) < 3 + MaxReconnects
       /\ \E n \in 1..Len(SidChar) : Connect(Sid(n))
    \/ ~socketConnected /\ ClientId \in connected /\ last.op = "connection"
          /\ onReconnect
    \/ /\ Quiescent
       /\ \E p \in Peers :
             \/ /\ JoinsSent(p) < (IF p = Peer THEN MaxJoins ELSE 1)
                /\ JoinRoom(p, Str(CodeA))
             \/ LeaveRoom(p, Str(CodeA))
             \/ Disconnect(p)

ViewSpec == InitView /\ [][NextView]_vars

(***************************************************************************)
(* Vocabulary of the properties.                                           *)
(***************************************************************************)
AllSids == {Sid(n) : n \in 1..Len(SidChar)}

\* the members of room `code` in registry `rms`, as a set
MemberSet(rms, code) == Range(Members(rms, code))

\* how many times the last handler delivered `event` to connection t
Copies(t, event) ==
    Cardinality({i \in 1..Len(emitted) :
                    emitted[i].to = t /\ emitted[i].event = event})

LogOf(log, s) == IF s \in DOMAIN log THEN log[s] ELSE <<>>

\* how many of the times q lie within the trailing 60 seconds
CountInWindow(q) ==
    Cardinality({i \in 1..Len(q) : now - q[i] < RATE_LIMIT_WINDOW})

\* the admitted attempts of s before the last handler, within the window
PriorInWindow(s) == CountInWindow(LogOf(prevLog, s))

IsFileOp == last.op \in {"file-info", "file-chunk", "file-complete"}

\* the last handler sent exactly one event, an error with `message`, to s
OnlyError(s, message) ==
    /\ Len(emitted) = 1
    /\ emitted[1].to = s
    /\ emitted[1].event = "error"
    /\ emitted[1].data = [message |-> message]

SomeError == \E i \in 1..Len(emitted) : emitted[i].event = "error"

\* socket.io's rooms agree with the registry, and every open connection is
\* alone in the room named by its id
AdapterMatchesRooms ==
    \A r \in (DOMAIN adapter) \cup (DOMAIN rooms) \cup connected :
        IF r \in AllSids
        THEN r \in connected /\ InRoom(adapter, r) = {r}
        ELSE InRoom(adapter, r) = MemberSet(rooms, r)

\* every room other than `code` is as it was when the last handler started
OtherRoomsUnchanged(code) ==
    \A r \in ((DOMAIN rooms) \cup (DOMAIN prevRooms)) \ {code} :
        /\ r \in DOMAIN rooms
        /\ r \in DOMAIN prevRooms
        /\ rooms[r] = prevRooms[r]

(***************************************************************************)
(* C1: after any sequence of join-room, leave-room, disconnect and sweep   *)
(* events, a room code is a key of the registry if and only if its member  *)
(* set is non-empty.                                                       *)
(***************************************************************************)
C1_RoomIffNonEmpty ==
    \A code \in (DOMAIN rooms) \cup {CodeA, CodeB, CodeNone} :
        (code \in DOMAIN rooms) <=> (MemberSet(rooms, code) # {})

\* the last member of CodeA has just left while CodeB stays
C1_Witness ==
    /\ last.op \in {"leave-room", "disconnect"}
    /\ CodeA \in DOMAIN prevRooms
    /\ CodeA \notin DOMAIN rooms
    /\ CodeB \in DOMAIN rooms

(***************************************************************************)
(* C2: every room holds at most 10 connections; a join-room aimed at a     *)
(* room that already has 10 members adds nobody and is answered by one     *)
(* error, the room-full error whenever the attempt got past the rate       *)
(* limiter.                                                                *)
(***************************************************************************)
AimedAtFullRoom ==
    /\ last.op = "join-room"
    /\ last.data.type = "string"
    /\ \E code \in DOMAIN prevRooms :
          /\ code = sanitizeRoomId(last.data.chars)
          /\ Len(prevRooms[code]) >= MAX_ROOM_SIZE

C3_AdmitsBelowThirty ==
    last.op = "join-room" =>
        LET s == last.socket
            prior == LogOf(prevLog, s)
        IN  IF CountInWindow(prior) < MAX_REQUESTS_PER_WINDOW
            THEN /\ ~OnlyError(s, MsgRate)
                 /\ LogOf(admittedLog, s) = Append(prior, now)
            ELSE /\ OnlyError(s, MsgRate)
                 /\ admittedLog = prevLog

\* an attempt is admitted although 30 were admitted before it: they have
\* fallen out of the window
C3_Witness ==
    /\ last.op = "join-room"
    /\ ~SomeError
    /\ Len(LogOf(prevLog, last.socket)) = MAX_REQUESTS_PER_WINDOW
    /\ now = RATE_LIMIT_WINDOW

(***************************************************************************)
(* C4: a file-info, file-chunk or file-complete event is never delivered   *)
(* to the connection that sent it, whatever room value it carries.         *)
(***************************************************************************)
C4_NeverToSender ==
    IsFileOp => \A i \in 1..Len(emitted) : emitted[i].to # last.socket

\* a member sends a file event to its own room and somebody receives it
C4_Witness ==
    /\ IsFileOp
    /\ last.socket \in MemberSet(rooms, last.data.room)
    /\ Len(emitted) >= 1

(***************************************************************************)
(* C5: when a member of room R sends a file event carrying room = R, every *)
(* other member of R gets exactly one copy, with the payload fields        *)
(* unchanged and sender set to the sending connection's id, and nobody     *)
(* else gets anything.                                                     *)
(***************************************************************************)
Forwarded(op, d, s) ==
    CASE op = "file-info" ->
           [fileId |-> d.fileId, fileName |-> d.fileName,
            fileSize |-> d.fileSize, mimeType |-> d.mimeType, sender |-> s]
      [] op = "file-chunk" ->
           [fileId |-> d.fileId, chunkIndex |-> d.chunkIndex, data |-> d.data,
            isLast |-> d.isLast, sender |-> s]
      [] op = "file-complete" -> [fileId |-> d.fileId, sender |-> s]

SentToOwnRoom ==
    /\ IsFileOp
    /\ last.socket \in MemberSet(rooms, last.data.room)

C5_OneCopyToEveryOtherMember ==
    SentToOwnRoom =>
        LET s == last.socket
            others == MemberSet(rooms, last.data.room) \ {s}
        IN  /\ \A t \in AllSids :
                  Copies(t, last.op) = IF t \in others THEN 1 ELSE 0
            /\ Len(emitted) = Cardinality(others)
            /\ \A i \in 1..Len(emitted) :
                  /\ emitted[i].event = last.op
                  /\ emitted[i].data = Forwarded(last.op, last.data, s)

C5_Witness ==
    /\ SentToOwnRoom
    /\ last.op = "file-chunk"
    /\ MemberSet(rooms, last.data.room) \ {last.socket} # {}
    /\ Len(emitted) >= 1

(***************************************************************************)
(* C6: every accepted join-room, a repeated one included, leaves the       *)
(* member set equal to the old set plus the joiner and emits users-in-room *)
(* to the joiner listing the members without the joiner, user-joined with  *)
(* the joiner's id to every other member, and room-status to every member, *)
(* the joiner included, with userCount the size of the member set and      *)
(* users the member set.                                                   *)
(***************************************************************************)
JoinAccepted == last.op = "join-room" /\ ~SomeError

JoinedAs(s, code) ==
    LET members == MemberSet(rooms, code)
    IN  /\ members = MemberSet(prevRooms, code) \cup {s}
        /\ OtherRoomsUnchanged(code)
        /\ \A t \in AllSids :
              /\ Copies(t, "users-in-room") = IF t = s THEN 1 ELSE 0
              /\ Copies(t, "user-joined") = IF t \in members \ {s} THEN 1 ELSE 0
              /\ Copies(t, "room-status") = IF t \in members THEN 1 ELSE 0
        /\ Len(emitted) = 2 * Cardinality(members)
        /\ \A i \in 1..Len(emitted) :
              /\ emitted[i].event = "users-in-room" =>
                    Range(emitted[i].data) = members \ {s}
              /\ emitted[i].event = "user-joined" => emitted[i].data = s
              /\ emitted[i].event = "room-status" =>
                    /\ emitted[i].data.roomId = code
                    /\ emitted[i].data.userCount = Cardinality(members)
                    /\ Range(emitted[i].data.users) = members

C6_AcceptedJoinEmits ==
    JoinAccepted => \E code \in DOMAIN rooms : JoinedAs(last.socket, code)

\* a member joins its room again while another member is in it
C6_Witness ==
    /\ JoinAccepted
    /\ rooms = prevRooms
    /\ \E code \in DOMAIN rooms :
          /\ last.socket \in MemberSet(prevRooms, code)
          /\ Cardinality(MemberSet(rooms, code)) >= 2
          /\ JoinedAs(last.socket, code)

(***************************************************************************)
(* C7: any raw string with at least 6 alphanumeric characters, in upper or *)
(* lower case, joins the room named by the upper-cased first 6 of them     *)
(* (unless the rate limiter or the capacity check rejects the attempt).    *)
(***************************************************************************)
IsAlphanumeric(c) == c \in UpperChars \cup LowerChars \cup DigitChars

\* the upper-cased first 6 alphanumeric characters of raw
UpperFirstSix(raw) == toUpperCase(substring0(SelectSeq(raw, IsAlphanumeric), 6))

C7_JoinsUpperCasedFirstSix ==
    ( /\ last.op = "join-room"
      /\ last.data.type = "string"
      /\ Len(SelectSeq(last.data.chars, IsAlphanumeric)) >= 6
      /\ ~OnlyError(last.socket, MsgRate)
      /\ ~OnlyError(last.socket, MsgFull) )
    => last.socket \in MemberSet(rooms, UpperFirstSix(last.data.chars))

(***************************************************************************)
(* C8: a join-room that is rejected for any reason (rate limit, missing or *)
(* non-string code, sanitized code not 6 alphanumeric characters, room     *)
(* full) leaves the registry and every member set unchanged, sends exactly *)
(* one error event, to the requester, nothing to anybody else, and leaves  *)
(* the requester connected.                                                *)
(***************************************************************************)
ReasonRate == PriorInWindow(last.socket) >= MAX_REQUESTS_PER_WINDOW

ReasonFormat == ~Truthy(last.data) \/ last.data.type # "string"

ReasonPattern ==
    /\ last.data.type = "string"
    /\ ~validateRoomId(sanitizeRoomId(last.data.chars))

JoinRejected ==
    /\ last.op = "join-room"
    /\ ReasonRate \/ ReasonFormat \/ ReasonPattern \/ AimedAtFullRoom \/ SomeError

C8_RejectedJoinChangesNothing ==
    JoinRejected =>
        /\ rooms = prevRooms
        /\ AdapterMatchesRooms
        /\ Len(emitted) = 1
        /\ emitted[1].to = last.socket
        /\ emitted[1].event = "error"
        /\ emitted[1].data.message \in {MsgRate, MsgFormat, MsgPattern, MsgFull}
        /\ last.socket \in connected

\* an attempt denied by the rate limiter
C8_Witness ==
    /\ last.op = "join-room"
    /\ ReasonRate
    /\ OnlyError(last.socket, MsgRate)
    /\ rooms = prevRooms

(***************************************************************************)
(* C9: after a disconnect is handled the connection is a member of no      *)
(* room; every room it was in that still has members stays with the other  *)
(* members, who each get user-left with its id; every room it leaves empty *)
(* is deleted; nothing else is delivered.                                  *)
(***************************************************************************)
C9_DisconnectLeavesEveryRoom ==
    last.op = "disconnect" =>
        LET s == last.socket
            was == {code \in DOMAIN prevRooms : s \in MemberSet(prevRooms, code)}
        IN  /\ \A code \in DOMAIN rooms : s \notin MemberSet(rooms, code)
            /\ DOMAIN rooms \subseteq DOMAIN prevRooms
            /\ \A code \in DOMAIN prevRooms :
                  /\ MemberSet(rooms, code) = MemberSet(prevRooms, code) \ {s}
                  /\ (code \in DOMAIN rooms) <=>
                        (MemberSet(prevRooms, code) \ {s} # {})
            /\ \A t \in AllSids :
                  Copies(t, "user-left") =
                     Cardinality({code \in was :
                                     t \in MemberSet(prevRooms, code) \ {s}})
            /\ \A i \in 1..Len(emitted) :
                  emitted[i].event = "user-left" /\ emitted[i].data = s

\* a member of two rooms disconnects: one room is left empty, one is not
C9_Witness ==
    /\ last.op = "disconnect"
    /\ \E c1, c2 \in DOMAIN prevRooms :
          /\ last.socket \in MemberSet(prevRooms, c1)
          /\ last.socket \in MemberSet(prevRooms, c2)
          /\ c1 \notin DOMAIN rooms
          /\ c2 \in DOMAIN rooms
    /\ Len(emitted) >= 1

(***************************************************************************)
(* C10: leave-room(code) from a member of room code removes it from the    *)
(* member set, delivers user-left with its id to every remaining member    *)
(* and not to itself, and deletes the room if it becomes empty; from a     *)
(* non-member, or for a room not in the registry, it changes no state and  *)
(* emits nothing.                                                          *)
(***************************************************************************)
LeftAsMember ==
    /\ last.op = "leave-room"
    /\ last.data.type = "string"
    /\ last.data.chars \in DOMAIN prevRooms
    /\ last.socket \in MemberSet(prevRooms, last.data.chars)

C10_LeaveRoom ==
    last.op = "leave-room" =>
        /\ AdapterMatchesRooms
        /\ last.socket \in connected
        /\ IF LeftAsMember
           THEN LET s == last.socket
                    code == last.data.chars
                    remaining == MemberSet(prevRooms, code) \ {s}
                IN  /\ MemberSet(rooms, code) = remaining
                    /\ (code \in DOMAIN rooms) <=> (remaining # {})
                    /\ OtherRoomsUnchanged(code)
                    /\ \A t \in AllSids :
                          Copies(t, "user-left") = IF t \in remaining THEN 1 ELSE 0
                    /\ Len(emitted) = Cardinality(remaining)
                    /\ \A i \in 1..Len(emitted) : emitted[i].data = s
           ELSE /\ rooms = prevRooms
                /\ emitted = <<>>

\* a member leaves a room in which another member remains
C10_Witness ==
    /\ LeftAsMember
    /\ last.data.chars \in DOMAIN rooms
    /\ Copies(last.socket, "user-left") = 0
    /\ Len(emitted) >= 1

(***************************************************************************)
(* C11: an accepted join-room for a valid code increases the member count  *)
(* of that room by exactly 1 when the joining connection was not already a *)
(* member of it, and leaves the count as it was when it already was one.   *)
(***************************************************************************)
JoinedCode == sanitizeRoomId(last.data.chars)

CountBefore(code) == Len(Members(prevRooms, code))

CountAfter(code) == Len(Members(rooms, code))

WasMember(s, code) == s \in MemberSet(prevRooms, code)

C11_JoinAddsOneUnlessMember ==
    JoinAccepted =>
        /\ last.data.type = "string"
        /\ validateRoomId(JoinedCode)
        /\ CountAfter(JoinedCode) =
              CountBefore(JoinedCode)
                 + (IF WasMember(last.socket, JoinedCode) THEN 0 ELSE 1)

\* a connection joins a room that another connection is already in
C11_Witness ==
    /\ JoinAccepted
    /\ ~WasMember(last.socket, JoinedCode)
    /\ CountBefore(JoinedCode) = 1
    /\ CountAfter(JoinedCode) = 2

\* C11 as first stated: every accepted join-room adds exactly 1 to the count
C11_EveryJoinAddsOne ==
    JoinAccepted => CountAfter(JoinedCode) = CountBefore(JoinedCode) + 1

(***************************************************************************)
(* Vocabulary of the sender's properties.                                  *)
(***************************************************************************)
\* ceil(a / b)
CeilDiv(a, b) == (a + b - 1) \div b

Max(a, b) == IF a >= b THEN a ELSE b

\* what the call-th sendFile has emitted so far, in order
CallEvents(call) == SelectSeq(outbox, LAMBDA e : e.call = call)

\* the file-chunk events among them
CallChunks(call) ==
    SelectSeq(outbox, LAMBDA e : e.call = call /\ e.event = "file-chunk")

LoopDone(k) == k \in 1..Len(loops) /\ loops[k].pc = "done"

(***************************************************************************)
(* C12: of the file-chunk events emitted for a file of size S > 0, a chunk *)
(* has isLast true exactly if its index is ceil(S/65536) - 1; no index is  *)
(* emitted twice, so once the loop is done exactly one chunk, the one with *)
(* the highest index, carries isLast.                                      *)
(***************************************************************************)
C12_IsLastOnFinalChunkOnly ==
    \A k \in 1..Len(loops) :
        LET S      == loops[k].file.size
            chunks == CallChunks(k)
        IN  S > 0 =>
              /\ \A i \in 1..Len(chunks) :
                    /\ chunks[i].data.chunkIndex = i - 1
                    /\ chunks[i].data.isLast <=>
                          (i - 1 = CeilDiv(S, 65536) - 1)
              /\ LoopDone(k) =>
                    /\ Len(chunks) = CeilDiv(S, 65536)
                    /\ chunks[Len(chunks)].data.isLast

\* a file of exactly two chunks has been sent: isLast is false on chunk 0
\* and true on chunk 1
C12_Witness ==
    /\ LoopDone(1)
    /\ loops[1].file.size = 2 * 65536
    /\ Len(CallChunks(1)) = 2
    /\ ~CallChunks(1)[1].data.isLast
    /\ CallChunks(1)[2].data.isLast

(***************************************************************************)
(* C13: what a started sendFile has emitted is, in order: one file-info,   *)
(* then file-chunk events with chunkIndex 0, 1, 2, ... each once, chunk i  *)
(* holding the bytes from offset 65536 * i, and, once the chunk marked     *)
(* isLast is out, one file-complete and nothing more; every event carries  *)
(* the fileId of the call.  A sendFile for an unknown file or with no      *)
(* connected peer emits nothing.                                           *)
(***************************************************************************)
IsFileEvent(e) == e.event \in {"file-info", "file-chunk", "file-complete"}

SendRefused ==
    /\ last.op = "sendFile"
    /\ last.data.name \notin DOMAIN filesToSend \/ connectedPeers = {}

C13_SendFileEmitsInOrder ==
    /\ \A i \in 1..Len(outbox) :
          IsFileEvent(outbox[i]) => outbox[i].call \in 1..Len(loops)
    /\ SendRefused => Len(outbox) = last.data.sent
    /\ \A k \in 1..Len(loops) :
          LET events == CallEvents(k)
              n      == Len(CallChunks(k))
          IN  /\ Len(events) = 1 + n + (IF LoopDone(k) THEN 1 ELSE 0)
              /\ events[1].event = "file-info"
              /\ \A i \in 1..Len(events) :
                    events[i].data.fileId = loops[k].fileId
              /\ \A i \in 1..n :
                    /\ events[1 + i].event = "file-chunk"
                    /\ events[1 + i].data.chunkIndex = i - 1
                    /\ events[1 + i].data.data.bytes.blob.start
                          = Min(65536 * (i - 1), loops[k].file.size)
                    /\ events[1 + i].data.isLast <=> (LoopDone(k) /\ i = n)
              /\ LoopDone(k) =>
                    /\ n >= 1
                    /\ events[n + 2].event = "file-complete"

\* a file of two chunks has been sent to the end
C13_Witness ==
    /\ LoopDone(1)
    /\ Len(CallEvents(1)) = 4
    /\ CallEvents(1)[3].data.data.bytes.blob.start = 65536
    /\ CallEvents(1)[4].event = "file-complete"

(***************************************************************************)
(* C20: every started chunk loop comes to its end, whatever the file size  *)
(* S >= 0 and whatever happens meanwhile (the peer leaves, the transport   *)
(* closes, the client leaves the room): no callback of the loop waits for  *)
(* an acknowledgment, and at its end the loop has emitted                  *)
(* max(1, ceil(S/65536)) chunks followed by file-complete.                 *)
(***************************************************************************)
LoopStarted(k) == k \in 1..Len(loops)

LoopEndsWell(k) ==
    LoopDone(k) =>
        /\ Len(CallChunks(k)) = Max(1, CeilDiv(loops[k].file.size, 65536))
        /\ CallEvents(k)[Len(CallEvents(k))].event = "file-complete"

C20_ChunkLoopTerminates ==
    /\ [](\A k \in 1..MaxSends : LoopEndsWell(k))
    /\ \A k \in 1..MaxSends : LoopStarted(k) ~> LoopDone(k)

\* a loop has ended although, while it ran, the client left the room and
\* the transport was down, with no peer left at the end
C20_Witness ==
    /\ LoopDone(1)
    /\ connectedPeers = {}
    /\ \E i \in 1..Len(CallChunks(1)) : CallChunks(1)[i].data.room = Null
    /\ \E i \in 1..Len(CallChunks(1)) : ~CallChunks(1)[i].connected

(***************************************************************************)
(* Vocabulary of the receiver's properties.                                *)
(***************************************************************************)
\* the receiver has handled the file-info first, then every chunk of the
\* transfer once (in some order), then the file-complete
ReceivedWhole ==
    /\ LoopDone(1)
    /\ Len(inbox) = Len(CallEvents(1))
    /\ inbox[1].event = "file-info"
    /\ inbox[Len(inbox)].event = "file-complete"

\* the chunk indices in their order of arrival
ArrivalOrder ==
    LET chunks == SelectSeq(inbox, LAMBDA m : m.event = "file-chunk")
    IN  [i \in 1..Len(chunks) |-> chunks[i].data.chunkIndex]

SourceFile == loops[1].file

(***************************************************************************)
(* C14: when a receiver has handled the file-info of a transfer, then      *)
(* every chunk once, then the file-complete, it has made one artifact,     *)
(* which has the name, type and length of the source file and the same     *)
(* byte at every position.                                                 *)
(***************************************************************************)
C14_ArtifactEqualsSource ==
    ReceivedWhole =>
        /\ Len(downloads) = 1
        /\ downloads[1].fileName = SourceFile.name
        /\ downloads[1].blob.type = SourceFile.type
        /\ downloads[1].blob.size = SourceFile.size
        /\ ByteLength(downloads[1].blob.bytes) = SourceFile.size
        /\ \A i \in 0..(SourceFile.size - 1) :
              ByteAt(downloads[1].blob.bytes, i) = FileByte(SourceFile, i)

\* chunks of 65536, 65536 and 10 bytes have made an artifact of 131082 bytes
C14_Witness ==
    /\ ReceivedWhole
    /\ ArrivalOrder = <<0, 1, 2>>
    /\ Len(downloads) = 1
    /\ downloads[1].blob.size = 131082
    /\ LET parts == downloads[1].blob.bytes.parts
       IN  /\ Len(parts) = 3
           /\ ByteLength(parts[1]) = 65536
           /\ ByteLength(parts[2]) = 65536
           /\ ByteLength(parts[3]) = 10

(***************************************************************************)
(* C15: the artifact does not depend on the order in which the chunks      *)
(* arrive between the file-info and the file-complete: it is the artifact  *)
(* that handling the same events in the order of their chunk indices       *)
(* gives.                                                                  *)
(***************************************************************************)
RECURSIVE SessionFedWith(_, _)
\* the session after handleFileChunk has run for each of `events` in turn
SessionFedWith(session, events) ==
    IF events = <<>> THEN session
    ELSE SessionFedWith(
            SessionWithChunk(session,
                             Relayed("file-chunk", Head(events).data, SenderId)),
            Tail(events))

\* the artifact made when the chunks arrive in the order they were sent,
\* which by C13 is the order of their indices
InOrderBlob ==
    BlobOf(SessionFedWith(
              NewSession(Relayed("file-info", CallEvents(1)[1].data, SenderId)),
              CallChunks(1)))

C15_ArrivalOrderIrrelevant ==
    ReceivedWhole =>
        /\ Len(downloads) = 1
        /\ downloads[1].blob = InOrderBlob

\* chunk 2 arrived before chunk 1, and the artifact has been made
C15_Witness ==
    /\ ReceivedWhole
    /\ ArrivalOrder = <<0, 2, 1>>
    /\ Len(downloads) = 1
    /\ downloads[1].blob.size = 131082

(***************************************************************************)
(* C16: after every transport reconnect, a client whose currentRoom is set *)
(* emits join-room for that room, and the paused flag of its transfers is  *)
(* cleared; the chunk loop of a transfer is not restarted.                 *)
(*                                                                         *)
(* The statement about join-room, as an invariant: the "reconnect"         *)
(* listeners of a client in a room have emitted exactly one event, a       *)
(* join-room for currentRoom.                                              *)
(***************************************************************************)
\* the events the last client callback emitted
SentByLast == SubSeq(outbox, last.data.sent + 1, Len(outbox))

C16_ReconnectRejoinsRoom ==
    (last.op = "reconnect" /\ currentRoom # Null) =>
        /\ Len(SentByLast) = 1
        /\ SentByLast[1].event = "join-room"
        /\ SentByLast[1].data = currentRoom

(***************************************************************************)
(* C17: whenever more than 30 seconds pass without a pong, the client sets *)
(* connectionHealthy to false and forces a reconnect attempt; every pong   *)
(* sets connectionHealthy to true and resets the silence timer.            *)
(*                                                                         *)
(* The statement about the silence, as an invariant: once one of the       *)
(* client's interval callbacks has run more than 30 seconds after the last *)
(* pong, connectionHealthy is false.                                       *)
(***************************************************************************)
C17_SilenceMarksUnhealthy ==
    (last.op \in {"pingInterval", "diagnostics"} /\ PongOverdue) =>
        ~connectionHealthy

(***************************************************************************)
(* C18: a file-chunk is delivered only to the connections that are members *)
(* of the room at the moment the relay handles it, the sender excepted: no *)
(* other handler delivers a file-chunk, so a connection that joins later   *)
(* never receives that chunk and one that has left or disconnected         *)
(* receives no later chunk.  The sender gets no event about the chunk; as  *)
(* a member of the room it is told of the other's join by user-joined and  *)
(* room-status, and of its leaving or disconnecting by user-left.          *)
(***************************************************************************)
\* the events the last handler sent to connection t
EventsTo(t) ==
    LET mine == SelectSeq(emitted, LAMBDA e : e.to = t)
    IN  {mine[i].event : i \in 1..Len(mine)}

\* a connection other than the streaming one has joined, left or gone
OtherMoved ==
    /\ last.op \in {"join-room", "leave-room", "disconnect"}
    /\ last.socket # Streamer
    /\ rooms # prevRooms

C18_ChunkOnlyToMembersAtHandling ==
    /\ last.op = "file-chunk" =>
          \A t \in AllSids :
              Copies(t, "file-chunk") =
                 IF t \in MemberSet(prevRooms, last.data.room) \ {last.socket}
                 THEN 1 ELSE 0
    /\ last.op # "file-chunk" =>
          \A t \in AllSids : "file-chunk" \notin EventsTo(t)
    /\ last.op = "file-chunk" => EventsTo(last.socket) = {}
    /\ (OtherMoved /\ Streamer \in MemberSet(rooms, CodeA)) =>
          EventsTo(Streamer) =
             IF last.op = "join-room"
             THEN {"user-joined", "room-status"} ELSE {"user-left"}

\* a chunk handled after Sid(3) joined and disconnected, and while Sid(2)
\* is a member: Sid(2) alone receives it
C18_Witness ==
    /\ last.op = "file-chunk"
    /\ Streamer \in MemberSet(rooms, CodeA)
    /\ Sid(3) \in closed
    /\ Sid(3) \in DOMAIN admittedLog
    /\ Copies(Sid(2), "file-chunk") = 1
    /\ Copies(Sid(3), "file-chunk") = 0
    /\ Len(emitted) = 1

\* the statement as it was made: when another connection joins, leaves or
\* disconnects, no event is sent to the sender
C18_NoEventToSender == OtherMoved => EventsTo(Streamer) = {}

(***************************************************************************)
(* C19: two connections that send join-room at the same time to a room of  *)
(* 9 members cannot both be admitted.  The handler runs from its capacity  *)
(* check to the add without yielding, so the second handler sees the       *)
(* member the first one added: a join-room is accepted only when the room  *)
(* held fewer than 10 members just before, a join-room of a non-member     *)
(* that finds 10 members changes nothing, and no room ever holds 11.       *)
(***************************************************************************)
\* a join-room for CodeA from a connection that is not a member, handled
\* when the room holds MAX_ROOM_SIZE members, the rate limit permitting
SecondOfTwoJoins ==
    /\ last.op = "join-room"
    /\ last.data.type = "string"
    /\ JoinedCode = CodeA
    /\ CountBefore(CodeA) = MAX_ROOM_SIZE
    /\ ~WasMember(last.socket, CodeA)
    /\ PriorInWindow(last.socket) < MAX_REQUESTS_PER_WINDOW

C19_NoTransientEleven ==
    /\ \A code \in DOMAIN rooms : CountAfter(code) <= MAX_ROOM_SIZE
    /\ (JoinAccepted /\ ~WasMember(last.socket, JoinedCode)) =>
          /\ CountBefore(JoinedCode) < MAX_ROOM_SIZE
          /\ CountAfter(JoinedCode) = CountBefore(JoinedCode) + 1
    /\ SecondOfTwoJoins =>
          /\ ~JoinAccepted
          /\ CountAfter(CodeA) = MAX_ROOM_SIZE
          /\ last.socket \notin MemberSet(rooms, CodeA)

\* Sid(9) and Sid(10) joined the room of 8, and Sid(11), which also asked,
\* was turned away
C19_Witness ==
    /\ SecondOfTwoJoins
    /\ last.socket = Sid(MAX_ROOM_SIZE + 1)
    /\ {Sid(MAX_ROOM_SIZE - 1), Sid(MAX_ROOM_SIZE)} \subseteq MemberSet(rooms, CodeA)
    /\ OnlyError(last.socket, MsgFull)

\* the statement as it was made, for the second of the two handlers: it
\* admits its connection, and the room holds 11
C19_BothAdmitted ==
    SecondOfTwoJoins =>
        /\ JoinAccepted
        /\ CountAfter(CodeA) = MAX_ROOM_SIZE + 1

(***************************************************************************)
(* C21: after the sender has emitted file-complete for a fileId, the       *)
(* activeTransfers entry made when the send started is gone, and the       *)
(* number of active transfers is what it was before the send.              *)
(***************************************************************************)
C21_CompletedTransferForgotten ==
    \A k \in 1..Len(loops) :
        LoopDone(k) => loops[k].fileId \notin DOMAIN activeTransfers

(***************************************************************************)
(* Vocabulary of the receiver's properties: what has arrived, read off the *)
(* inbox.  It is used while the user has not left the room, so that the    *)
(* inbox is the whole history of the sessions.                             *)
(***************************************************************************)
NeverLeft == Emitted("leave-room") = 0

\* the position of the last `event` among the first n - 1 arrivals, or 0
LastBefore(event, n) ==
    LET at == {j \in 1..(n - 1) : inbox[j].event = event}
    IN  IF at = {} THEN 0 ELSE CHOOSE j \in at : \A k \in at : k <= j

\* a session was open when the n-th arrival was handled
OpenBefore(n) == LastBefore("file-info", n) > LastBefore("file-complete", n)

\* the positions of the chunks that session had accepted by then
Accepted(n) ==
    {j \in (LastBefore("file-info", n) + 1)..(n - 1) :
        inbox[j].event = "file-chunk"}

\* the indices they populated
Populated(n) == {inbox[j].data.chunkIndex : j \in Accepted(n)}

\* the decoded chunk held at index idx: the last one that arrived for it
HeldAt(n, idx) ==
    LET at == {j \in Accepted(n) : inbox[j].data.chunkIndex = idx}
    IN  atob(inbox[CHOOSE j \in at : \A k \in at : k <= j].data.data)

\* the p-th smallest populated index
NthPopulated(n, p) ==
    CHOOSE idx \in Populated(n) :
        Cardinality({x \in Populated(n) : x < idx}) = p - 1

\* the bytes held in the buffer
HeldBytes(n) ==
    LET Sum[S \in SUBSET Populated(n)] ==
            IF S = {} THEN 0
            ELSE LET idx == CHOOSE x \in S : TRUE
                 IN  ByteLength(HeldAt(n, idx)) + Sum[S \ {idx}]
    IN  Sum[Populated(n)]

(***************************************************************************)
(* C22: when file-complete arrives for an open session of which some chunk *)
(* indices were never populated, no error is raised: the artifact is the   *)
(* concatenation, in index order, of exactly the populated entries, a      *)
(* missing index contributing nothing, and the file is reported received.  *)
(***************************************************************************)
CompletedOpenSession ==
    /\ NeverLeft
    /\ last.op = "file-complete"
    /\ OpenBefore(Len(inbox))

C22_HolesContributeNothing ==
    CompletedOpenSession =>
        LET n    == Len(inbox)
            made == downloads[Len(downloads)]
        IN  /\ Len(downloads) >= 1
            /\ made.fileId = last.data.fileId
            /\ Len(made.blob.bytes.parts) = Cardinality(Populated(n))
            /\ \A p \in 1..Cardinality(Populated(n)) :
                  made.blob.bytes.parts[p] = HeldAt(n, NthPopulated(n, p))
            /\ made.blob.size = HeldBytes(n)
            /\ ByteLength(made.blob.bytes) = HeldBytes(n)
            /\ last.data.fileId \notin DOMAIN receivingFiles

\* of the three chunks announced, the middle one never arrived
C22_Witness ==
    /\ CompletedOpenSession
    /\ Populated(Len(inbox)) = {0, 2}
    /\ Len(downloads) = 1
    /\ downloads[1].fileName = "three.bin"
    /\ downloads[1].blob.size = fileChunkSize + 10

(***************************************************************************)
(* C23: receivedSize of an open session is the sum of the decoded lengths  *)
(* of all the chunks that arrived for it.  It is never less than the bytes *)
(* held in the buffer, and it exceeds them exactly when some index arrived *)
(* more than once; the order of arrival alone changes nothing.             *)
(***************************************************************************)
\* a session is open now
SessionOpen == NeverLeft /\ OpenBefore(Len(inbox) + 1)

\* the decoded lengths of the arrivals accepted, added up
ArrivedBytes(n) ==
    LET Sum[S \in SUBSET Accepted(n)] ==
            IF S = {} THEN 0
            ELSE LET j == CHOOSE x \in S : TRUE
                 IN  ByteLength(atob(inbox[j].data.data)) + Sum[S \ {j}]
    IN  Sum[Accepted(n)]

\* some index arrived more than once
SomeDuplicate(n) == Cardinality(Accepted(n)) > Cardinality(Populated(n))

\* some chunk arrived before one of a smaller index
Reordered(n) ==
    \E j, k \in Accepted(n) :
        j < k /\ inbox[j].data.chunkIndex > inbox[k].data.chunkIndex

ReceiverState ==
    <<currentRoom, connectedPeers, filesToSend, receivingFiles,
      activeTransfers, downloads>>

HasSession == ArrivalFileId \in DOMAIN receivingFiles

C24_SessionLifetime ==
    [][ /\ (~HasSession /\ HasSession') => last'.op = "file-info"
        /\ (HasSession /\ ~HasSession') =>
              last'.op \in {"file-complete", "goBack"}
        /\ last'.op = "file-info" => HasSession'
        /\ last'.op = "goBack" =>
              receivingFiles' = EmptyMap /\ downloads' = downloads
        /\ (last'.op = "file-complete" /\ HasSession) =>
              /\ ~HasSession'
              /\ downloads' =
                    Append(downloads,
                           [fileId |-> ArrivalFileId,
                            fileName |-> receivingFiles[ArrivalFileId].fileName,
                            blob |-> BlobOf(receivingFiles[ArrivalFileId])])
        /\ (last'.op \in {"file-chunk", "file-complete"} /\ ~HasSession) =>
              ReceiverState' = ReceiverState
        /\ downloads' # downloads =>
              last'.op = "file-complete" /\ HasSession
      ]_vars

\* a file-complete that found no session, after one that made the artifact
C24_Witness ==
    /\ NeverLeft
    /\ last.op = "file-complete"
    /\ ~OpenBefore(Len(inbox))
    /\ LastBefore("file-complete", Len(inbox)) > LastBefore("file-info", Len(inbox))
    /\ LastBefore("file-info", Len(inbox)) > 0
    /\ Len(downloads) = 1
    /\ receivingFiles = EmptyMap

\* the statement as it was made: only a file-complete ends a session
C24_OnlyCompletionEndsSession ==
    [][(HasSession /\ ~HasSession') => last'.op = "file-complete"]_vars

(***************************************************************************)
(* C25: on a transport disconnect every entry of activeTransfers is marked *)
(* paused, and the chunk loop does not read the flag: a pending read or    *)
(* timeout of the loop runs whether or not the transfer is paused, and     *)
(* advances offset and chunkIndex and emits the chunk, and after the last  *)
(* chunk the completion event, all the same.                               *)
(***************************************************************************)
\* the transfer of the k-th call is marked paused
Paused(k) == activeTransfers[loops[k].fileId].paused

\* the last callback was reader.onload of the k-th call
OnloadRan(k) == last.op = "reader.onload" /\ last.data.call = loops[k].call

C25_PausedIsAdvisory ==
    /\ last.op = "disconnect" =>
          \A id \in DOMAIN activeTransfers : activeTransfers[id].paused
    /\ \A k \in 1..Len(loops) :
          /\ loops[k].fileId \in DOMAIN activeTransfers
          /\ loops[k].pc = "reading" => ENABLED readerOnload(k)
          /\ loops[k].pc = "timer" => ENABLED sendNextChunk(k)
          /\ (OnloadRan(k) /\ Paused(k)) =>
                LET chunks == CallChunks(k)
                    sent   == chunks[Len(chunks)]
                IN  /\ loops[k].chunkIndex = Len(chunks)
                    /\ loops[k].offset = loops[k].chunkSize * Len(chunks)
                    /\ sent.data.chunkIndex = loops[k].chunkIndex - 1
                    /\ outbox[Len(outbox)] =
                          IF LoopDone(k)
                          THEN [event |-> "file-complete",
                                data |-> [room |-> currentRoom,
                                          fileId |-> loops[k].fileId],
                                call |-> loops[k].call,
                                connected |-> socketConnected]
                          ELSE sent

\* the transport closed after the first chunk of two; the second chunk and
\* the completion event were emitted with the transfer marked paused
C25_Witness ==
    /\ Len(loops) = 1
    /\ OnloadRan(1)
    /\ Paused(1)
    /\ LoopDone(1)
    /\ ~socketConnected
    /\ Len(CallChunks(1)) = 2
    /\ CallChunks(1)[1].connected
    /\ ~CallChunks(1)[2].connected
    /\ outbox[Len(outbox)].event = "file-complete"

(***************************************************************************)
(* C26: the periodic sweep, run anywhere among the other events, deletes   *)
(* only rooms without members and only rate-limit timestamps that have     *)
(* left the 60-second window, dropping a record of which none remain.  It  *)
(* never removes a member or a room that has one, and every later          *)
(* rate-limit check allows or denies as if the sweep had not run: the      *)
(* timestamps inside the window are always those of the attempts admitted. *)
(***************************************************************************)
InWindowOf(q) == SelectSeq(q, LAMBDA time : now - time < RATE_LIMIT_WINDOW)

C26_SweepIsInvisible ==
    /\ last.op = "sweep" =>
          /\ DOMAIN rooms \subseteq DOMAIN prevRooms
          /\ \A code \in DOMAIN prevRooms :
                IF prevRooms[code] # <<>>
                THEN code \in DOMAIN rooms /\ rooms[code] = prevRooms[code]
                ELSE code \notin DOMAIN rooms
          /\ \A s \in DOMAIN rateLimit :
                /\ rateLimit[s] # <<>>
                /\ rateLimit[s] = InWindowOf(LogOf(admittedLog, s))
          /\ \A s \in DOMAIN admittedLog :
                s \notin DOMAIN rateLimit => InWindowOf(admittedLog[s]) = <<>>
    /\ \A s \in AllSids :
          /\ InWindowOf(userRequests(s)) = InWindowOf(LogOf(admittedLog, s))
          /\ checkRateLimit(s) <=>
                Len(InWindowOf(LogOf(admittedLog, s))) < MAX_REQUESTS_PER_WINDOW

\* the sweep has dropped the record of a connection whose attempts are all
\* a full window old, and has kept the room the connection is in
C26_Witness ==
    /\ last.op = "sweep"
    /\ now = RATE_LIMIT_WINDOW
    /\ Sid(1) \in DOMAIN admittedLog
    /\ Sid(1) \notin DOMAIN rateLimit
    /\ MemberSet(rooms, CodeA) = {Sid(1)}

(***************************************************************************)
(* C27: leaving the room while a send is in flight does not stop the chunk *)
(* loop, and every chunk and completion event the loop emits afterwards    *)
(* reaches no connection, also when the client has meanwhile joined a      *)
(* different room.                                                         *)
(*                                                                         *)
(* The relay handles the events of one connection in the order they were   *)
(* emitted, each to the end: AdapterAt(n) is socket.io's room table once   *)
(* the first n events of the client have been handled, and Reaches(i) the  *)
(* connections to which the i-th is forwarded.                             *)
(***************************************************************************)
RECURSIVE AdapterAt(_)
AdapterAt(n) ==
    IF n <= 1 THEN adapter
    ELSE LET ad == AdapterAt(n - 1)
             e  == outbox[n]
         IN  CASE e.event = "join-room" ->
                    AdapterJoin(ad, SenderId, sanitizeRoomId(e.data.chars))
               [] e.event = "leave-room" ->
                    IF SenderId \in InRoom(ad, e.data.chars)
                    THEN AdapterLeave(ad, SenderId, e.data.chars) ELSE ad
               [] OTHER -> ad

Reaches(i) ==
    IF outbox[i].data.room = Null THEN {}
    ELSE SocketTo(AdapterAt(i - 1), SenderId, outbox[i].data.room.chars)

\* the i-th event belongs to a send during which the user has left the room
EmittedAfterLeaving(i) ==
    /\ IsFileEvent(outbox[i])
    /\ \E j \in 1..(i - 1) :
          /\ outbox[j].event = "leave-room"
          /\ \E h \in 1..(j - 1) :
                outbox[h].event = "file-info" /\ outbox[h].call = outbox[i].call

C27_LateEventsReachNobody ==
    \A i \in 1..Len(outbox) : EmittedAfterLeaving(i) => Reaches(i) = {}

(***************************************************************************)
(* C28: a file-info, file-chunk or file-complete event is delivered to a   *)
(* member of room R only if the connection that sent it is itself a member *)
(* of R in the registry.                                                   *)
(***************************************************************************)
C28_OnlyMembersReachRoom ==
    \A code \in DOMAIN rooms :
        (IsFileOp /\ \E t \in MemberSet(rooms, code) : Copies(t, last.op) > 0)
            => last.socket \in MemberSet(rooms, code)

(***************************************************************************)
(* C29: the buffer of a session holds only chunks sent by the connection   *)
(* whose file-info opened the session: a chunk with the same fileId from   *)
(* another member is never stored, and a second file-info with the same    *)
(* fileId does not reset a session in progress.                            *)
(***************************************************************************)
\* the position of the file-info that opened the session now in progress
Opener ==
    LET n  == Len(inbox) + 1
        at == {j \in (LastBefore("file-complete", n) + 1)..(n - 1) :
                  inbox[j].event = "file-info"}
    IN  CHOOSE j \in at : \A k \in at : j <= k

C29_SessionKeepsToItsSender ==
    SessionOpen =>
        LET session == receivingFiles[ArrivalFileId]
            opening == inbox[Opener].data
        IN  /\ session.fileName = opening.fileName
            /\ session.fileSize = opening.fileSize
            /\ \A idx \in DOMAIN session.chunks :
                  \E j \in (Opener + 1)..Len(inbox) :
                      /\ inbox[j].event = "file-chunk"
                      /\ inbox[j].data.sender = opening.sender
                      /\ inbox[j].data.chunkIndex = idx
                      /\ session.chunks[idx] = atob(inbox[j].data.data)

(***************************************************************************)
(* C30: join and leave are inverse for every raw code the relay accepts:   *)
(* when join-room(raw) has been accepted for a connection that was in no   *)
(* room, leave-room(raw) with the same string removes the connection from  *)
(* the room it joined and leaves the registry as it was before the join.   *)
(***************************************************************************)
\* the last event was an accepted join-room of a connection then in no room
JoinedFromNowhere ==
    /\ JoinAccepted
    /\ \A code \in DOMAIN prevRooms : ~WasMember(last.socket, code)

C30_LeaveUndoesJoin ==
    [][ (/\ JoinedFromNowhere
         /\ last'.op = "leave-room"
         /\ last'.socket = last.socket
         /\ last'.data = last.data)
        => rooms' = prevRooms ]_vars

(***************************************************************************)
(* C31: every join-room event that passes the rate check records a         *)
(* timestamp before the code is validated: an attempt then rejected for a  *)
(* malformed code or a full room is counted among the connection's 30 per  *)
(* window like an accepted one.  A rate-denied attempt records nothing,    *)
(* and no other event (file-info, file-chunk, file-complete, leave-room,   *)
(* ping, offer, answer, ice-candidate) is counted or answered with an      *)
(* error.                                                                  *)
(***************************************************************************)
\* the events of a connection that are not join-room
OtherEvents ==
    {"file-info", "file-chunk", "file-complete", "leave-room", "ping",
     "offer", "answer", "ice-candidate"}

\* the timestamps a map of records holds for s
RecordOf(rl, s) == IF s \in DOMAIN rl THEN rl[s] ELSE <<>>

C31_CountedBeforeValidation ==
    [][ LET s == last'.socket
            before == validRequests(s)
            after == RecordOf(rateLimit', s)
        IN  /\ last'.op = "join-room" =>
                  IF Len(before) < MAX_REQUESTS_PER_WINDOW
                  THEN /\ after = Append(before, now)
                       /\ \A t \in DOMAIN rateLimit' \ {s} :
                             RecordOf(rateLimit, t) = rateLimit'[t]
                       /\ \A i \in 1..Len(emitted') :
                             emitted'[i].event = "error" =>
                                 emitted'[i].data.message
                                     \in {MsgFormat, MsgPattern, MsgFull}
                  ELSE /\ rateLimit' = rateLimit
                       /\ emitted' = Emit({s}, "error", [message |-> MsgRate])
            /\ last'.op \in OtherEvents =>
                  /\ rateLimit' = rateLimit
                  /\ \A i \in 1..Len(emitted') : emitted'[i].event # "error"
      ]_vars

\* an attempt rejected because the room is full has taken the last of the
\* connection's 30 places: its next attempt will be denied
C31_Witness ==
    /\ last.op = "join-room"
    /\ OnlyError(last.socket, MsgFull)
    /\ Len(userRequests(last.socket)) = MAX_REQUESTS_PER_WINDOW
    /\ userRequests(last.socket)[MAX_REQUESTS_PER_WINDOW] = now
    /\ ~checkRateLimit(last.socket)
    /\ \A code \in DOMAIN rooms : last.socket \notin Range(rooms[code])

(***************************************************************************)
(* C32: in every quiescent state a connected client whose currentRoom is R *)
(* is registered by the relay as a member of room R, also after a          *)
(* rejected join and after a disconnect followed by a reconnect.           *)
(***************************************************************************)
\* the relay registers the client's connection as a member of room `code`
Registered(code) == code \in DOMAIN rooms /\ ClientId \in Range(rooms[code])

C32_RoomViewIsMembership ==
    (Quiescent /\ socketConnected /\ currentRoom # Null)
        => Registered(currentRoom.chars)

(***************************************************************************)
(* C33: in every quiescent state, when the relay registers the client as   *)
(* a member of room R, the client's connectedPeers is R's member set       *)
(* without the client's own connection id, after any joins, repeated       *)
(* joins, leaves, disconnects and reconnects of the client and its peers.  *)
(* No handler sends the client more than one room event, so handling one   *)
(* event per step leaves none behind.                                      *)
(***************************************************************************)
C33_PeersAreOtherMembers ==
    /\ Len(ForClient) <= 1
    /\ Quiescent =>
          \A code \in DOMAIN rooms :
              Registered(code) =>
                  connectedPeers = Range(rooms[code]) \ {ClientId}

\* the client, registered again after a reconnect under a new id, found
\* both peers in the room, and has been told that one of them left
C33_Witness ==
    /\ Quiescent
    /\ ClientId # Sid(1)
    /\ Registered(CodeA)
    /\ rooms[CodeA] = <<Peer, ClientId>>
    /\ connectedPeers = {Peer}
    /\ last.op = "user-left"

=============================================================================
